---- MODULE Spec2Model ----
(***************************************************************************)
(* A model of the recursive-descent parser of parser2/parser.go.           *)
(*                                                                         *)
(* The parser is modelled as a state machine with an explicit call stack:  *)
(* one action per block of code between two token requests.  The lexer is  *)
(* not part of parser.go; it is modelled as a source that hands out, on    *)
(* every Token() call, any token of the alphabet of the current grammar    *)
(* mode, a lexical error, or end of input.  The tokens handed out so far   *)
(* are recorded in lexed, so every token stream within the bounds that the *)
(* variable limits holds is explored.                                      *)
(*                                                                         *)
(* A position is the ordinal of a token in the lexer's stream (1, 2, ...); *)
(* 0 is the zero value of token.Position.                                  *)
(***************************************************************************)
EXTENDS Integers, Sequences, FiniteSets, TLC

\* ------------------------------------------------------------------ bounds

\* the number of tokens the lexer hands out before it reports end of input
MaxTokens == 5

\* the deepest call stack explored (frames of g1Node, g2Node, g1LineNodes
\* and parseAttributes)
MaxDepth == 7

\* an input of grammar G1: its tokens, and among them its DefineElement,
\* DefineAttribute, CharData and BlockStart (as many BlockEnd) tokens
G1Tokens == 10
G1Elements == 4
G1Attributes == 1
G1Texts == 1
G1Blocks == 2

\* an input of grammar G1 with attributes: its tokens, and among them its
\* DefineElement and DefineAttribute tokens (as many CharData, BlockStart and
\* BlockEnd tokens as DefineAttribute tokens)
AttrTokens == 12
AttrElements == 1
AttrAttributes == 2

\* an input of grammar G2: its tokens, and among them its Comma, CharData and
\* G2Arrow tokens and its blocks in curly brackets and in parentheses
G2Tokens == 8
G2Commas == 2
G2Texts == 2
G2Blocks == 2
G2Groups == 1
G2Arrows == 1

\* an input of grammar G2 with G1 lines: its tokens, and among them its
\* DefineElement, G1LineEnd and CharData tokens (one block in curly brackets)
LineTokens == 10
LineElements == 3
LineEnds == 2
LineTexts == 1

\* an input of grammar G2 with attributes: its tokens, and how many of them
\* are attribute definitions, texts, commas and curly brackets of a kind
G2AttrTokens == 11
G2AttrAttributes == 2
G2AttrTexts == 3
G2AttrCommas == 1
G2AttrBlocks == 1

\* an input with attributes of either grammar: its tokens, and how many of
\* them are element definitions, attribute definitions and texts
SyntaxTokens == 7
SyntaxElements == 1
SyntaxAttributes == 1
SyntaxTexts == 2

\* the longest text of a child element that Unmarshal is given
MaxTextLen == 4

\* the nodes that the methods of the visitor-driven parser create
MaxVisitorNodes == 4

\* ------------------------------------------------------------------ values

\* the identifiers (element names and attribute keys) and the text runs an
\* input is made of; an input uses the first few of each
Idents == <<"a", "b">>
Texts == <<"t", "u">>

G1 == "G1"
G2 == "G2"
G1Line == "G1Line"

BlockNone == ""
BlockNormal == "{}"
BlockGroup == "()"
BlockGeneric == "<>"

TokenIdentifier == "Identifier"
TokenCharData == "CharData"
TokenDefineElement == "DefineElement"
TokenDefineAttribute == "DefineAttribute"
TokenBlockStart == "BlockStart"
TokenBlockEnd == "BlockEnd"
TokenGroupStart == "GroupStart"
TokenGroupEnd == "GroupEnd"
TokenGenericStart == "GenericStart"
TokenGenericEnd == "GenericEnd"
TokenAssign == "Assign"
TokenComma == "Comma"
TokenG2Preamble == "G2Preamble"
TokenG2Arrow == "G2Arrow"
TokenG1LineEnd == "G1LineEnd"

\* a token: its type, its payload (Value of Identifier and CharData, Forward
\* of DefineElement and DefineAttribute) and its position
Tok(type, value, forward, pos) ==
    [type |-> type, value |-> value, forward |-> forward, pos |-> pos]

\* the nil Token (a nil interface value)
NilTok == Tok("nil", "", FALSE, 0)

\* errors: nil, io.EOF, an error of the lexer, or a token.PosError with its
\* position, message and the token types NewUnexpectedTokenError lists
NoErr == [kind |-> "nil", msg |-> "", begin |-> 0, end |-> 0, expected |-> {}]
EOF == [kind |-> "EOF", msg |-> "EOF", begin |-> 0, end |-> 0, expected |-> {}]
LexErr == [kind |-> "LexError", msg |-> "lexer", begin |-> 0, end |-> 0, expected |-> {}]
NewPosError(begin, end, msg, expected) ==
    [kind |-> "PosError", msg |-> msg, begin |-> begin, end |-> end,
     expected |-> expected]
TokPosError(tok, msg, expected) == NewPosError(tok.pos, tok.pos, msg, expected)

\* ------------------------------------------------------------------ AttributeMap

NewAttributeMap == [k \in {} |-> ""]
\* Faulty variant: Has finds no key
HasNever(a, key) == FALSE

Has(a, key) == key \in DOMAIN a
\* Faulty variant: Set loses the attribute
SetNothing(a, key, value) == a

Set(a, key, value) ==
    [k \in (DOMAIN a) \cup {key} |-> IF k = key THEN value ELSE a[k]]
\* the orders in which a range loop can visit the keys of the map a: Go
\* leaves the order open
RangeOrders(a) ==
    {o \in [1..Cardinality(DOMAIN a) -> DOMAIN a] :
        \A i, j \in DOMAIN o : i # j => o[i] # o[j]}

\* for k, v := range a { result[k] = v }, the keys visited in the order o
RECURSIVE CopyInto(_, _, _)
CopyInto(result, a, o) ==
    IF o = << >> THEN result
    ELSE CopyInto(Set(result, Head(o), a[Head(o)]), a, Tail(o))

\* Faulty variant: Merge loses the keys of the receiver
MergeOtherOnly(a, other) == {other}
\* Faulty variant: Merge copies the two maps in one loop over all their
\* entries, so the entry visited last wins
MergeInOneLoop(a, other) ==
    {[k \in (DOMAIN a) \cup (DOMAIN other) |->
        IF w[k] THEN other[k] ELSE a[k]] :
        w \in {f \in [(DOMAIN a) \cup (DOMAIN other) -> BOOLEAN] :
                  \A k \in DOMAIN f : (k \notin DOMAIN a => f[k])
                                       /\ (k \notin DOMAIN other => ~f[k])}}

\* Merge: the maps it can return, one for every order in which its two
\* loops visit the keys of a and then those of other
Merge(a, other) ==
    {CopyInto(CopyInto(NewAttributeMap, a, oa), other, oo) :
        oa \in RangeOrders(a), oo \in RangeOrders(other)}

\* ------------------------------------------------------------------ TreeNode

\* def, fwd, first and last are history fields that the Go struct does not
\* have: the position of the token that introduced the node (its
\* DefineElement in G1, its Identifier in G2, its CharData for a text), the
\* Forward flag of that DefineElement, and the positions of the first and the
\* last lexer token consumed while the node was built (0 when none).
TreeNode(name, isText, text, blockType, begin, end) ==
    [Name |-> name, IsText |-> isText, Text |-> text,
     Attributes |-> NewAttributeMap, Children |-> << >>,
     BlockType |-> blockType, Begin |-> begin, End |-> end,
     def |-> 0, fwd |-> FALSE, first |-> 0, last |-> 0]

NewNode(name) == TreeNode(name, FALSE, "", BlockNormal, 0, 0)

\* Faulty variant: the text is put into a node made by NewNode
TextInNewNode(cd) ==
    [NewNode("invalid name") EXCEPT
        !.IsText = TRUE, !.Text = cd.value, !.Begin = cd.pos, !.End = cd.pos,
        !.def = cd.pos, !.first = cd.pos, !.last = cd.pos]

NewTextNode(cd) ==
    [TreeNode("", TRUE, cd.value, BlockNone, cd.pos, cd.pos)
        EXCEPT !.def = cd.pos, !.first = cd.pos, !.last = cd.pos]

\* Faulty variant: any closing token closes the block
isClosedByAnyEnd(t, tok) ==
    tok.type \in {TokenBlockEnd, TokenGroupEnd, TokenGenericEnd}

isClosedBy(t, tok) ==
    CASE tok.type = TokenBlockEnd -> t.BlockType = BlockNormal
      [] tok.type = TokenGroupEnd -> t.BlockType = BlockGroup
      [] tok.type = TokenGenericEnd -> t.BlockType = BlockGeneric
      [] OTHER -> FALSE

\* ------------------------------------------------------------------ state

VARIABLES
    unm,              \* a call of Unmarshal: its arguments and what it returned
    visitor,          \* the parser of the visitor-driven variant: its parent node and forwarding nodes
    firstRun,         \* what an earlier parser read and returned, if there was one
    limits,           \* the bounds of the input, fixed from the start
    lexed,            \* the tokens the lexer has handed out so far
    lexEOF,           \* the lexer has reported the end of the input
    consumed,         \* the position of the last lexer token next() returned
    delivered,        \* what next() has returned to the parsing functions
    mode,             \* Parser.mode
    tokenBuffer,      \* Parser.tokenBuffer
    tokenTailBuffer,  \* Parser.tokenTailBuffer
    forwardingNodes,  \* Parser.forwardingNodes (node ids)
    nodes,            \* the heap of TreeNodes; a *TreeNode is an index
    stack,            \* the call stack below Parse, innermost frame last
    ret,              \* the value the last returned call handed to its caller
    result            \* what Parse returned

vars == <<unm, visitor, firstRun, limits, lexed, lexEOF, consumed, delivered, mode, tokenBuffer, tokenTailBuffer,
          forwardingNodes, nodes, stack, ret, result>>

\* ------------------------------------------------------------------ lexer

\* the tokens Lexer.Token() can produce in a grammar mode
Alphabet(m, pos, lim) ==
    LET common ==
            {Tok(TokenIdentifier, Idents[i], FALSE, pos) : i \in 1..lim.idents}
            \cup {Tok(TokenCharData, Texts[i], FALSE, pos) : i \in 1..lim.texts}
            \cup {Tok(TokenDefineElement, "", f, pos) : f \in BOOLEAN}
            \cup {Tok(TokenDefineAttribute, "", f, pos) : f \in BOOLEAN}
            \cup {Tok(TokenBlockStart, "", FALSE, pos),
                  Tok(TokenBlockEnd, "", FALSE, pos)}
    IN  CASE m = G1 ->
               common \cup (IF pos = 1 THEN {Tok(TokenG2Preamble, "", FALSE, pos)}
                                       ELSE {})
          [] m = G1Line ->
               common \cup {Tok(TokenG1LineEnd, "", FALSE, pos)}
          [] m = G2 ->
               common \cup {Tok(ty, "", FALSE, pos) :
                              ty \in {TokenGroupStart, TokenGroupEnd,
                                      TokenGenericStart, TokenGenericEnd,
                                      TokenAssign, TokenComma, TokenG2Arrow}}
                      \cup (IF lim.emptyTexts > 0
                            THEN {Tok(TokenCharData, "", FALSE, pos)}
                            ELSE {})

\* Lexer.Pos(): the position of the lexer, that of the last token it read
LexerPos(lx) == Len(lx)

\* how many tokens of type ty the sequence lx holds
RECURSIVE Count(_, _)
Count(lx, ty) ==
    IF lx = << >> THEN 0
    ELSE (IF Head(lx).type = ty THEN 1 ELSE 0) + Count(Tail(lx), ty)

\* the input is bounded by lim: at most lim.total tokens, at most lim[ty]
\* tokens of type ty ("LexError": places where the lexer reports an error,
\* which lexed records as tokens of that type), only the first lim.idents
\* identifiers and lim.texts texts, and, if lim.onlyG2 > 0, only inputs that
\* begin with the preamble of G2
Within(lx, t, lim) ==
    /\ Len(lx) < lim.total
    /\ Count(lx, t.type) < lim[t.type]
    /\ (lim.onlyG2 > 0 /\ lx = << >>) => t.type = TokenG2Preamble

\* Lexer.Token(): the outcomes of one call, each with the lexer's new state
LexerToken(lx, eof, m, lim) ==
    IF eof
    THEN {[tok |-> NilTok, err |-> EOF, lexed |-> lx, eof |-> TRUE]}
    ELSE (IF lim.onlyG2 > 0 /\ lx = << >>
          THEN {}
          ELSE {[tok |-> NilTok, err |-> EOF, lexed |-> lx, eof |-> TRUE]})
         \cup {[tok |-> NilTok, err |-> LexErr, lexed |-> Append(lx, t),
                 eof |-> FALSE] :
                 t \in {a \in {Tok("LexError", "", FALSE, Len(lx) + 1)} :
                          Within(lx, a, lim)}}
         \cup {[tok |-> t, err |-> NoErr, lexed |-> Append(lx, t), eof |-> FALSE] :
                 t \in {a \in Alphabet(m, Len(lx) + 1, lim) : Within(lx, a, lim)}}

\* no parser has run before this one
NoRun == [done |-> FALSE, lexed |-> << >>, eof |-> FALSE,
          status |-> "init", err |-> NoErr, tree |-> << >>]

\* the outcome o of Lexer.Token() after the tokens lx is one of the token
\* stream that the earlier parser run was given: the tokens it read, then the
\* end of the input if it saw the end (what it never asked for is open)
SameInput(o, lx, run) ==
    run.done =>
        IF Len(lx) < Len(run.lexed)
        THEN o.lexed = SubSeq(run.lexed, 1, Len(lx) + 1)
        ELSE run.eof => o.err = EOF

\* ------------------------------------------------------------------ next, peek

\* the token state of the parser that next() and peek() read and write
TokenState == [buf |-> tokenBuffer, tail |-> tokenTailBuffer,
               lexed |-> lexed, eof |-> lexEOF, used |-> consumed,
               out |-> delivered, lim |-> limits,
               run |-> firstRun]

Max(a, b) == IF a > b THEN a ELSE b

\* an entry of the history of next(): the token and the error it returned,
\* and the position of the lexer at that moment
Handed(tok, err, lx) == [tok |-> tok, err |-> err, at |-> LexerPos(lx)]

\* Faulty variant: the tail token keeps the position it was made with
PosKept(tok, lexPos) == tok

\* tok.Pos().SetBegin(...), tok.Pos().SetEnd(...): the token gets the
\* position of the lexer
SetPos(tok, lexPos) == [tok EXCEPT !.pos = lexPos]

\* Faulty variant: next() without the tail buffer
nextLexerOnly(s, m) ==
    IF Len(s.buf) > 0
    THEN {[tok |-> Head(s.buf).tok, err |-> Head(s.buf).err,
           s |-> [s EXCEPT !.buf = Tail(s.buf),
                           !.used = Max(@, Head(s.buf).tok.pos),
                           !.out = Append(@, Handed(Head(s.buf).tok,
                                                    Head(s.buf).err, s.lexed))]]}
    ELSE {[tok |-> o.tok, err |-> o.err,
           s |-> [s EXCEPT !.lexed = o.lexed, !.eof = o.eof,
                           !.used = Max(@, o.tok.pos),
                           !.out = Append(@, Handed(o.tok, o.err, o.lexed))]]
          : o \in {x \in LexerToken(s.lexed, s.eof, m, s.lim) :
                      SameInput(x, s.lexed, s.run)}}

\* next(): the outcomes of one call from token state s, each the token and
\* error returned and the token state left behind
next(s, m) ==
    IF Len(s.buf) > 0
    THEN {[tok |-> Head(s.buf).tok, err |-> Head(s.buf).err,
           s |-> [s EXCEPT !.buf = Tail(s.buf),
                           !.used = Max(@, Head(s.buf).tok.pos),
                           !.out = Append(@, Handed(Head(s.buf).tok,
                                                    Head(s.buf).err, s.lexed))]]}
    ELSE {IF o.err = EOF /\ Len(s.tail) > 0
          THEN LET twe == Head(s.tail)
                   tok == IF twe.tok # NilTok
                          THEN SetPos(twe.tok, LexerPos(o.lexed))
                          ELSE twe.tok
               IN  [tok |-> tok, err |-> twe.err,
                    s |-> [s EXCEPT !.tail = Tail(s.tail),
                                    !.lexed = o.lexed, !.eof = o.eof,
                                    !.out = Append(@, Handed(tok, twe.err,
                                                             o.lexed))]]
          ELSE [tok |-> o.tok, err |-> o.err,
                s |-> [s EXCEPT !.lexed = o.lexed, !.eof = o.eof,
                                !.used = Max(@, o.tok.pos),
                                !.out = Append(@, Handed(o.tok, o.err,
                                                         o.lexed))]]
          : o \in {x \in LexerToken(s.lexed, s.eof, m, s.lim) :
                      SameInput(x, s.lexed, s.run)}}

\* peek(): as next(), but the token stays in the token buffer
peek(s, m) ==
    IF Len(s.buf) > 0
    THEN {[tok |-> Head(s.buf).tok, err |-> Head(s.buf).err, s |-> s]}
    ELSE {[tok |-> r.tok, err |-> r.err,
           s |-> [r.s EXCEPT !.buf = Append(r.s.buf, [tok |-> r.tok, err |-> r.err]),
                             !.used = s.used, !.out = s.out]]
          : r \in next(s, m)}

\* the token state s becomes the parser's
SetTokenState(s) ==
    /\ tokenBuffer' = s.buf
    /\ tokenTailBuffer' = s.tail
    /\ lexed' = s.lexed
    /\ lexEOF' = s.eof
    /\ consumed' = s.used
    /\ delivered' = s.out
    /\ limits' = limits
    /\ firstRun' = firstRun
    /\ unm' = unm
    /\ visitor' = visitor


\* ------------------------------------------------------------------ call stack

\* a frame of g1Node, g2Node, g1LineNodes or parseAttributes: the function,
\* the place in it, and its local variables
Frame(fn, pc) ==
    [fn |-> fn, pc |-> pc,
     node |-> 0,                           \* node
     forwardingNode |-> FALSE,             \* forwardingNode (g1Node)
     forwardedAttributes |-> NewAttributeMap,
     wantForward |-> FALSE,                \* wantForward (parseAttributes)
     result |-> NewAttributeMap,           \* result (parseAttributes)
     attrKey |-> "",                       \* attrKey (parseAttributes)
     isG1 |-> FALSE,                       \* isG1 (parseAttributes)
     forward |-> FALSE,                    \* forward (g1LineNodes)
     nodes |-> << >>,                      \* nodes (g1LineNodes)
     start |-> 0]                          \* consumed when the call began

\* what a call returns: a node (0 is nil), a list of nodes, an attribute map
\* and an error
NoRet == [set |-> FALSE, node |-> 0, list |-> << >>, attrs |-> NewAttributeMap,
          err |-> NoErr]
RetNode(n) == [NoRet EXCEPT !.set = TRUE, !.node = n]
RetList(l) == [NoRet EXCEPT !.set = TRUE, !.list = l]
RetAttrs(a) == [NoRet EXCEPT !.set = TRUE, !.attrs = a]
RetErr(e) == [NoRet EXCEPT !.set = TRUE, !.err = e]

top == stack[Len(stack)]
At(fn, pc) ==
    /\ result.status = "running"
    /\ Len(stack) > 0
    /\ top.fn = fn
    /\ top.pc = pc

Pop(stk) == SubSeq(stk, 1, Len(stk) - 1)
SetTop(stk, f) == [stk EXCEPT ![Len(stk)] = f]

\* the running function returns v to its caller
Return(v) ==
    /\ stack' = Pop(stack)
    /\ ret' = v

\* the running function goes on at pc with its locals as in f
Goto(f, pc) ==
    /\ stack' = SetTop(stack, [f EXCEPT !.pc = pc])
    /\ ret' = NoRet

\* the running function, left at pc with its locals as in f, calls callee
Call(f, pc, callee) ==
    /\ Len(stack) < MaxDepth
    /\ stack' = Append(SetTop(stack, [f EXCEPT !.pc = pc]),
                       [callee EXCEPT !.start = consumed'])
    /\ ret' = NoRet

\* a method is called on a nil Token: the goroutine panics
Panic ==
    /\ result' = [status |-> "panic", tree |-> 0, err |-> NoErr]
    /\ stack' = << >>
    /\ ret' = NoRet

PAFrame(wantForward) ==
    [Frame("parseAttributes", "loop") EXCEPT
        !.wantForward = wantForward,
        !.isG1 = (mode = G1 \/ mode = G1Line)]

\* ------------------------------------------------------------------ Unmarshal

\* The unmarshal facade is specified at its interface only.  The tree it is
\* given is seen as its immediate child elements, each with its first text
\* content, a sequence of characters; the target is a record shape, a field
\* type for every field name.

\* the characters of the decimal digits, and the characters the texts given
\* to Unmarshal are made of
DigitChars == <<"0", "1", "2", "3", "4", "5", "6", "7", "8", "9">>
TextChars == {"-", "0", "3", "5"}

IsDigit(c) == \E i \in 1..10 : DigitChars[i] = c
DigitValue(c) == (CHOOSE i \in 1..10 : DigitChars[i] = c) - 1

\* the field types: a string, or an integer with its signedness and bit width
StringType == [kind |-> "string", signed |-> FALSE, bits |-> 0]
IntType(signed, bits) == [kind |-> "int", signed |-> signed, bits |-> bits]
FieldTypes == {StringType, IntType(TRUE, 8), IntType(TRUE, 16),
               IntType(FALSE, 8), IntType(FALSE, 64)}

\* the zero value of a field type
ZeroValue(type) == IF type.kind = "string" THEN << >> ELSE 0

\* the decimal digits of the largest magnitude an integer type holds, for
\* values below zero (neg) and for the others
LimitDigits(type, neg) ==
    CASE type = IntType(TRUE, 8) -> IF neg THEN <<1, 2, 8>> ELSE <<1, 2, 7>>
      [] type = IntType(TRUE, 16) -> IF neg THEN <<3, 2, 7, 6, 8>>
                                            ELSE <<3, 2, 7, 6, 7>>
      [] type = IntType(FALSE, 8) -> <<2, 5, 5>>
      [] type = IntType(FALSE, 64) ->
           <<1, 8, 4, 4, 6, 7, 4, 4, 0, 7, 3, 7, 0, 9, 5, 5, 1, 6, 1, 5>>

\* a sequence of digits without its leading zeros
RECURSIVE StripZeros(_)
StripZeros(d) ==
    IF Len(d) > 1 /\ d[1] = 0 THEN StripZeros(Tail(d)) ELSE d

\* the number with the digits a is at most the number with the digits b
\* (both without leading zeros)
RECURSIVE DigitsLessEq(_, _)
DigitsLessEq(a, b) ==
    IF Len(a) # Len(b) THEN Len(a) < Len(b)
    ELSE IF a = << >> THEN TRUE
    ELSE IF a[1] # b[1] THEN a[1] < b[1]
    ELSE DigitsLessEq(Tail(a), Tail(b))

\* the number that a sequence of digits stands for, n being the number of
\* the digits read before
RECURSIVE NumberOf(_, _)
NumberOf(d, n) ==
    IF d = << >> THEN n ELSE NumberOf(Tail(d), n * 10 + d[1])

\* Faulty variant: the integer is parsed without a look at the field type
ParseIntAnyWidth(text, type) ==
    LET neg == Len(text) > 0 /\ text[1] = "-"
        body == IF neg THEN Tail(text) ELSE text
        digits == [i \in 1..Len(body) |-> DigitValue(body[i])]
    IN  IF body = << >> \/ \E i \in 1..Len(body) : ~IsDigit(body[i])
        THEN [ok |-> FALSE, value |-> 0]
        ELSE [ok |-> TRUE,
              value |-> (IF neg THEN -1 ELSE 1) * NumberOf(digits, 0)]

\* the text of a child parsed as an integer of the field type: an optional
\* sign and digits, and the number must fit the signedness and the bit width
ParseInt(text, type) ==
    LET neg == Len(text) > 0 /\ text[1] = "-"
        body == IF neg THEN Tail(text) ELSE text
        digits == [i \in 1..Len(body) |-> DigitValue(body[i])]
    IN  IF body = << >> \/ \E i \in 1..Len(body) : ~IsDigit(body[i])
        THEN [ok |-> FALSE, value |-> 0]
        ELSE IF neg /\ ~type.signed
        THEN [ok |-> FALSE, value |-> 0]
        ELSE IF ~DigitsLessEq(StripZeros(digits), LimitDigits(type, neg))
        THEN [ok |-> FALSE, value |-> 0]
        ELSE [ok |-> TRUE,
              value |-> (IF neg THEN -1 ELSE 1) * NumberOf(digits, 0)]

\* a field of the target filled from the children of the tree: the value of
\* the field and whether that failed
FieldFrom(children, name, type, strict) ==
    IF name \notin DOMAIN children
    THEN [ok |-> ~strict, value |-> ZeroValue(type)]
    ELSE IF type.kind = "string"
    THEN [ok |-> TRUE, value |-> children[name]]
    ELSE ParseInt(children[name], type)

\* Faulty variant: an absent field is never an error
UnmarshalLenient(children, fields, strict) ==
    LET got == [f \in DOMAIN fields |-> FieldFrom(children, f, fields[f], FALSE)]
    IN  [err |-> \E f \in DOMAIN fields : ~got[f].ok,
         values |-> [f \in DOMAIN fields |-> got[f].value]]

\* Unmarshal: every field of the target is filled from the child element of
\* its name; it fails if one of the fields does
Unmarshal(children, fields, strict) ==
    LET got == [f \in DOMAIN fields |-> FieldFrom(children, f, fields[f], strict)]
    IN  [err |-> \E f \in DOMAIN fields : ~got[f].ok,
         values |-> [f \in DOMAIN fields |-> got[f].value]]

\* no call of Unmarshal
NoCall == [stage |-> "none", children |-> << >>, fields |-> << >>,
           strict |-> FALSE, err |-> FALSE, values |-> << >>]

\* ------------------------------------------------------------------ Init

\* the bounds of an input of any tokens, at most MaxTokens of them
AnyInput ==
    [ty \in {"total", "LexError", "idents", "texts", "onlyG2", "emptyTexts",
             TokenIdentifier, TokenCharData,
             TokenDefineElement, TokenDefineAttribute, TokenBlockStart,
             TokenBlockEnd, TokenGroupStart, TokenGroupEnd, TokenGenericStart,
             TokenGenericEnd, TokenAssign, TokenComma, TokenG2Preamble,
             TokenG2Arrow, TokenG1LineEnd} |->
        CASE ty \in {"idents", "texts"} -> 2
          [] ty \in {"onlyG2", "emptyTexts"} -> 0
          [] OTHER -> MaxTokens]

\* the parser after NewParser, before an input bounded by lim
NewParser(lim) ==
    /\ limits = lim
    /\ firstRun = NoRun
    /\ lexed = << >>
    /\ lexEOF = FALSE
    /\ consumed = 0
    /\ delivered = << >>
    /\ mode = G1
    /\ tokenBuffer = << >>
    /\ tokenTailBuffer = << >>
    /\ forwardingNodes = << >>
    /\ nodes = << >>
    /\ stack = << >>
    /\ ret = NoRet
    /\ result = [status |-> "init", tree |-> 0, err |-> NoErr]

\* ------------------------------------------------------------------ the visitor-driven parser

\* The visitor-driven variant of the parser builds the tree through calls
\* of its methods.  Of its fields the model keeps the children of p.parent,
\* p.forwardingNodes and firstNode; a node is a fresh pointer (id) with its
\* name.  had and buffered record the children of the parent and the
\* forwarding nodes as they were when AppendForwardingNodes was called.

VisitorNames == {"a", "b"}

\* no parser of the visitor-driven variant
NoVisitor ==
    [stage |-> "none", firstNode |-> FALSE, Name |-> "", children |-> << >>,
     forwardingNodes |-> << >>, made |-> 0, had |-> << >>, buffered |-> << >>]

\* NewParser of the variant: the parent is the root, without children
VisitorNewParser ==
    [NoVisitor EXCEPT !.stage = "built", !.firstNode = TRUE, !.Name = "root"]

\* NewNode(name) called by a method of the variant: a new node
VisitorNode(id, name) == [id |-> id, Name |-> name]

\* Parser.NewNode(name): the first call names the parent, every other call
\* appends a new node to the children of the parent
VisitorNewNode(name) ==
    /\ visitor.stage # "none"
    /\ visitor.made < MaxVisitorNodes
    /\ visitor' =
         IF visitor.firstNode
         THEN [visitor EXCEPT !.firstNode = FALSE, !.Name = name,
                              !.stage = "built"]
         ELSE [visitor EXCEPT
                  !.children = Append(@, VisitorNode(visitor.made + 1, name)),
                  !.made = @ + 1,
                  !.stage = "built"]
    /\ UNCHANGED <<unm, firstRun, limits, lexed, lexEOF, consumed, delivered, mode, tokenBuffer,
                   tokenTailBuffer, forwardingNodes, nodes, stack, ret, result>>

\* Parser.AddForwardNode(name): a new node is appended to p.forwardingNodes
AddForwardNode(name) ==
    /\ visitor.stage # "none"
    /\ visitor.made < MaxVisitorNodes
    /\ visitor' =
         [visitor EXCEPT
            !.forwardingNodes = Append(@, VisitorNode(visitor.made + 1, name)),
            !.made = @ + 1,
            !.stage = "built"]
    /\ UNCHANGED <<unm, firstRun, limits, lexed, lexEOF, consumed, delivered, mode, tokenBuffer,
                   tokenTailBuffer, forwardingNodes, nodes, stack, ret, result>>

\* the loop of AppendForwardingNodes from its i-th round on: every round
\* assigns append(p.forwardingNodes, node) to p.parent.Children
RECURSIVE AppendEach(_, _, _)
AppendEach(children, fwd, i) ==
    IF i > Len(fwd)
    THEN children
    ELSE AppendEach(Append(fwd, fwd[i]), fwd, i + 1)

\* Parser.AppendForwardingNodes(): the loop, then p.forwardingNodes = nil
AppendForwardingNodes ==
    /\ visitor.stage # "none"
    /\ visitor' =
         [visitor EXCEPT
            !.children = AppendEach(@, visitor.forwardingNodes, 1),
            !.forwardingNodes = << >>,
            !.stage = "appended",
            !.had = visitor.children,
            !.buffered = visitor.forwardingNodes]
    /\ UNCHANGED <<unm, firstRun, limits, lexed, lexEOF, consumed, delivered, mode, tokenBuffer,
                   tokenTailBuffer, forwardingNodes, nodes, stack, ret, result>>

NextVisitor ==
    \/ \E name \in VisitorNames : VisitorNewNode(name)
    \/ \E name \in VisitorNames : AddForwardNode(name)
    \/ AppendForwardingNodes

\* the parser after NewParser, no call of Unmarshal and no parser of the
\* visitor-driven variant
InitWith(lim) ==
    /\ NewParser(lim)
    /\ unm = NoCall
    /\ visitor = NoVisitor

\* the methods of a parser of the visitor-driven variant, called in any
\* order
SpecVisitor ==
    /\ NewParser(AnyInput)
    /\ unm = NoCall
    /\ visitor = VisitorNewParser
    /\ [][NextVisitor]_vars

Init == InitWith(AnyInput)

\* ------------------------------------------------------------------ Parse

TWE(tok) == [tok |-> tok, err |-> NoErr]

\* Faulty variant: the EOF of an empty input stays in the token buffer
InputIsNeverEmpty(err) == FALSE

\* the edge case of Parse: an empty input, whose EOF is taken out of the
\* token buffer again
InputIsEmpty(err) == err = EOF

\* Parse, up to its call of g1Node or g2Node
Parse ==
    /\ result.status = "init"
    /\ \E r \in peek(TokenState, mode) :
         LET s1 == IF InputIsEmpty(r.err)
                   THEN (CHOOSE n \in next(r.s, mode) : TRUE).s
                   ELSE r.s
         IN  IF r.tok # NilTok /\ r.tok.type = TokenG2Preamble
             THEN LET s2 == (CHOOSE n \in next(s1, G2) : TRUE).s
                  IN  /\ mode' = G2
                      /\ SetTokenState(
                            [s2 EXCEPT !.buf = Append(@,
                                TWE(Tok(TokenIdentifier, "root", FALSE, 0))),
                                       !.out = << >>])
                      /\ stack' = <<[Frame("g2Node", "enter") EXCEPT
                                        !.start = s2.used]>>
             ELSE /\ mode' = mode
                  /\ SetTokenState(
                        [s1 EXCEPT
                            !.buf = <<TWE(Tok(TokenDefineElement, "", FALSE, 0)),
                                      TWE(Tok(TokenIdentifier, "root", FALSE, 0)),
                                      TWE(Tok(TokenBlockStart, "", FALSE, 0))>> \o @,
                            !.tail = Append(@, TWE(Tok(TokenBlockEnd, "", FALSE, 0))),
                            !.out = << >>])
                  /\ stack' = <<[Frame("g1Node", "enter") EXCEPT
                                    !.start = s1.used]>>
    /\ result' = [result EXCEPT !.status = "running"]
    /\ ret' = NoRet
    /\ UNCHANGED <<forwardingNodes, nodes>>

\* Faulty variant: Parse without its checks on what was parsed
ForwardingNodesIgnored(fwdNodes) == FALSE
AnyRootBrackets(tree) == FALSE

\* the checks of Parse on what was parsed: no forwarding node is left over,
\* and the root has curly brackets
ForwardingNodesLeft(fwdNodes) == Len(fwdNodes) > 0
RootWithoutCurlyBrackets(tree) == tree.BlockType # BlockNormal

\* Parse, from the return of g1Node or g2Node
ParseReturn ==
    /\ result.status = "running"
    /\ stack = << >>
    /\ ret.set
    /\ result' =
         IF ret.err # NoErr
         THEN [status |-> "error", tree |-> 0, err |-> ret.err]
         ELSE IF ForwardingNodesLeft(forwardingNodes)
         THEN [status |-> "error", tree |-> 0,
               err |-> NewPosError(nodes[forwardingNodes[1]].Begin,
                                   nodes[forwardingNodes[1]].End,
                                   "there is no node to forward this node into", {})]
         ELSE IF RootWithoutCurlyBrackets(nodes[ret.node])
         THEN [status |-> "error", tree |-> 0,
               err |-> NewPosError(nodes[ret.node].Begin, nodes[ret.node].End,
                                   "root element must have curly brackets", {})]
         ELSE [status |-> "tree", tree |-> ret.node, err |-> NoErr]
    /\ ret' = NoRet
    /\ UNCHANGED <<unm, visitor, firstRun, limits, lexed, lexEOF, consumed, delivered, mode, tokenBuffer, tokenTailBuffer,
                   forwardingNodes, nodes, stack>>

\* ------------------------------------------------------------------ parseAttributes

\* Faulty variant: a non-forward attribute is read as a forward one
WrongForwardingAllowed(wantForward, attr) == FALSE

\* Faulty variant: a run of non-forward attributes reads on over a forward one
NotForUsIgnored(wantForward, attr) == FALSE

\* !wantForward && attr.Forward: the attribute is for the next element
NotForUs(wantForward, attr) == ~wantForward /\ attr.forward

\* wantForward && !attr.Forward
WrongForwarding(wantForward, attr) == wantForward /\ ~attr.forward

\* the head of the loop: peek, and pop a DefineAttribute of the wanted kind
parseAttributesLoop ==
    /\ At("parseAttributes", "loop")
    /\ \E r \in peek(TokenState, mode) :
         IF r.err # NoErr
         THEN /\ SetTokenState(r.s)
              /\ Return(RetAttrs(top.result))
         ELSE IF r.tok.type = TokenDefineAttribute
         THEN IF WrongForwarding(top.wantForward, r.tok)
              THEN /\ SetTokenState(r.s)
                   /\ Return(RetErr(TokPosError(r.tok,
                         "this should be a forward attribute or removed", {})))
              ELSE IF NotForUs(top.wantForward, r.tok)
              THEN /\ SetTokenState(r.s)
                   /\ Return(RetAttrs(top.result))
              ELSE /\ SetTokenState((CHOOSE n \in next(r.s, mode) : TRUE).s)
                   /\ Goto(top, "key")
         ELSE /\ SetTokenState(r.s)
              /\ Return(RetAttrs(top.result))
    /\ UNCHANGED <<mode, forwardingNodes, nodes, result>>

\* read the attribute key
parseAttributesKey ==
    /\ At("parseAttributes", "key")
    /\ \E r \in next(TokenState, mode) :
         /\ SetTokenState(r.s)
         /\ IF r.err # NoErr
            THEN Return(RetErr(r.err))
            ELSE IF r.tok.type # TokenIdentifier
            THEN Return(RetErr(TokPosError(r.tok,
                    "an identifier is required as an attribute key",
                    {TokenIdentifier})))
            ELSE IF Has(top.result, r.tok.value)
            THEN Return(RetErr(TokPosError(r.tok,
                    "cannot define same attribute twice", {})))
            ELSE Goto([top EXCEPT !.attrKey = r.tok.value], "delimiter")
    /\ UNCHANGED <<mode, forwardingNodes, nodes, result>>

\* Faulty variant: the value is expected in curly brackets in every mode
DelimiterOfG1(isG1) == TokenBlockStart

\* the token that stands between the key and the value: '{' in G1 and in a
\* G1 line, '=' in G2
DelimiterOf(isG1) == IF isG1 THEN TokenBlockStart ELSE TokenAssign

\* read the '{' (G1) or the '=' (G2) before the value; the error of next()
\* is dropped and the token's type is asked for
parseAttributesDelimiter ==
    /\ At("parseAttributes", "delimiter")
    /\ \E r \in next(TokenState, mode) :
         /\ SetTokenState(r.s)
         /\ IF r.tok = NilTok
            THEN /\ Panic
            ELSE /\ UNCHANGED result
                 /\ IF r.tok.type = DelimiterOf(top.isG1)
                    THEN Goto(top, "value")
                    ELSE IF top.isG1
                    THEN Return(RetErr(TokPosError(r.tok,
                            "attribute value must be enclosed in '{}'",
                            {TokenBlockStart})))
                    ELSE Return(RetErr(TokPosError(r.tok,
                            "'=' is expected here", {TokenAssign})))
    /\ UNCHANGED <<mode, forwardingNodes, nodes>>

\* read the value and set the attribute
parseAttributesValue ==
    /\ At("parseAttributes", "value")
    /\ \E r \in next(TokenState, mode) :
         /\ SetTokenState(r.s)
         /\ IF r.err # NoErr
            THEN Return(RetErr(r.err))
            ELSE IF r.tok.type # TokenCharData
            THEN Return(RetErr(TokPosError(r.tok,
                    "attribute value is required", {TokenCharData})))
            ELSE Goto([top EXCEPT
                          !.result = Set(top.result, top.attrKey, r.tok.value)],
                      IF top.isG1 THEN "close" ELSE "loop")
    /\ UNCHANGED <<mode, forwardingNodes, nodes, result>>

\* in G1, read the '}' after the value
parseAttributesClose ==
    /\ At("parseAttributes", "close")
    /\ \E r \in next(TokenState, mode) :
         /\ SetTokenState(r.s)
         /\ IF r.tok = NilTok
            THEN /\ Panic
            ELSE /\ UNCHANGED result
                 /\ IF r.tok.type # TokenBlockEnd
                    THEN Return(RetErr(TokPosError(r.tok,
                            "attribute value needs to be closed with '}'",
                            {TokenBlockEnd})))
                    ELSE Goto(top, "loop")
    /\ UNCHANGED <<mode, forwardingNodes, nodes>>


\* ------------------------------------------------------------------ g1Node

\* the history fields of node id when its function returns
Built(nds, id, start, used) ==
    [nds EXCEPT ![id].first = IF used > start THEN start + 1 ELSE 0,
                ![id].last = IF used > start THEN used ELSE 0]

\* g1Node begins: a new node, and the forward attributes are parsed
g1NodeEnter ==
    /\ At("g1Node", "enter")
    /\ nodes' = Append(nodes, [NewNode("invalid name") EXCEPT
                                  !.Begin = LexerPos(lexed)])
    /\ UNCHANGED <<unm, visitor, firstRun, limits, lexed, lexEOF, consumed, delivered, mode, tokenBuffer, tokenTailBuffer,
                   forwardingNodes, result>>
    /\ Call([top EXCEPT !.node = Len(nodes) + 1], "element", PAFrame(TRUE))

\* Faulty variant: the token that begins the node is looked at and left
\* in the token buffer
ExpectElementOrTextPeeked(s, m) == peek(s, m)

\* tok, err := p.next() for the token that begins the node
ExpectElementOrText(s, m) == next(s, m)

\* expect a DefineElement or a CharData
g1NodeElement ==
    /\ At("g1Node", "element")
    /\ ret.set
    /\ IF ret.err # NoErr
       THEN /\ Return(RetErr(ret.err))
            /\ UNCHANGED <<unm, visitor, firstRun, limits, lexed, lexEOF, consumed, delivered, tokenBuffer, tokenTailBuffer,
                           nodes>>
       ELSE \E r \in ExpectElementOrText(TokenState, mode) :
              /\ SetTokenState(r.s)
              /\ IF r.err # NoErr
                 THEN /\ Return(RetErr(r.err))
                      /\ UNCHANGED nodes
                 ELSE IF r.tok.type = TokenDefineElement
                 THEN /\ nodes' = [nodes EXCEPT ![top.node].def = r.tok.pos,
                                                ![top.node].fwd = r.tok.forward]
                      /\ Goto([top EXCEPT !.forwardingNode = r.tok.forward,
                                          !.forwardedAttributes = ret.attrs],
                              "name")
                 ELSE IF r.tok.type = TokenCharData
                 THEN /\ nodes' = [nodes EXCEPT ![top.node] = NewTextNode(r.tok)]
                      /\ Return(RetNode(top.node))
                 ELSE /\ Return(RetErr(TokPosError(r.tok,
                            "this token is not valid here",
                            {TokenDefineElement, TokenCharData})))
                      /\ UNCHANGED nodes
    /\ UNCHANGED <<mode, forwardingNodes, result>>

\* Faulty variant: the forwarding nodes are dropped
SpliceNothing(nds, id, forwardingNode, fwdNodes) == nds

\* the forwarding nodes become the children of a node that is not forwarding
Splice(nds, id, forwardingNode, fwdNodes) ==
    IF forwardingNode THEN nds ELSE [nds EXCEPT ![id].Children = fwdNodes]

\* expect the name of the element, take the forwarding nodes in, and parse
\* the attributes
g1NodeName ==
    /\ At("g1Node", "name")
    /\ \E r \in next(TokenState, mode) :
         /\ SetTokenState(r.s)
         /\ IF r.err # NoErr
            THEN /\ Return(RetErr(r.err))
                 /\ UNCHANGED <<nodes, forwardingNodes>>
            ELSE IF r.tok.type = TokenIdentifier
            THEN /\ nodes' = Splice([nodes EXCEPT ![top.node].Name = r.tok.value],
                                    top.node, top.forwardingNode, forwardingNodes)
                 /\ forwardingNodes' = IF top.forwardingNode THEN forwardingNodes
                                                             ELSE << >>
                 /\ Call(top, "attributes", PAFrame(FALSE))
            ELSE /\ Return(RetErr(TokPosError(r.tok,
                       "this token is not valid here", {TokenIdentifier})))
                 /\ UNCHANGED <<nodes, forwardingNodes>>
    /\ UNCHANGED <<mode, result>>

\* merge the attributes and look for the '{' of the children
g1NodeAttributes ==
    /\ At("g1Node", "attributes")
    /\ ret.set
    /\ IF ret.err # NoErr
       THEN /\ Return(RetErr(ret.err))
            /\ UNCHANGED <<unm, visitor, firstRun, limits, lexed, lexEOF, consumed, delivered, tokenBuffer, tokenTailBuffer,
                           nodes, result>>
       ELSE \E r \in peek(TokenState, mode) :
            \E attributes \in Merge(top.forwardedAttributes, ret.attrs) :
              IF r.tok = NilTok
              THEN /\ SetTokenState(r.s)
                   /\ Panic
                   /\ UNCHANGED nodes
              ELSE /\ UNCHANGED result
                   /\ IF r.tok.type = TokenBlockStart
                      THEN /\ SetTokenState((CHOOSE n \in next(r.s, mode) : TRUE).s)
                           /\ nodes' = [nodes EXCEPT
                                 ![top.node].Attributes = attributes,
                                 ![top.node].BlockType = BlockNormal]
                           /\ Goto(top, "children")
                      ELSE /\ SetTokenState(r.s)
                           /\ nodes' = [nodes EXCEPT
                                 ![top.node].Attributes = attributes]
                           /\ Goto(top, "end")
    /\ UNCHANGED <<mode, forwardingNodes>>

\* the loop over the children: stop at a BlockEnd, else parse a child
g1NodeChildren ==
    /\ At("g1Node", "children")
    /\ \E r \in peek(TokenState, mode) :
         IF r.tok = NilTok
         THEN /\ SetTokenState(r.s)
              /\ Panic
         ELSE /\ UNCHANGED result
              /\ IF r.tok.type = TokenBlockEnd
                 THEN LET n == CHOOSE n \in next(r.s, mode) : TRUE
                      IN  /\ SetTokenState(n.s)
                          /\ IF n.err # NoErr
                             THEN Return(RetErr(n.err))
                             ELSE IF n.tok.type # TokenBlockEnd
                             THEN Return(RetErr(TokPosError(n.tok,
                                     "use a '}' here to close the element",
                                     {TokenBlockEnd})))
                             ELSE Goto(top, "end")
                 ELSE /\ SetTokenState(r.s)
                      /\ Call(top, "child", Frame("g1Node", "enter"))
    /\ UNCHANGED <<mode, forwardingNodes, nodes>>

\* Faulty variant: AddChildren puts the new children before the ones the node has
AddChildrenInFront(nds, id, children) ==
    [nds EXCEPT ![id].Children = children \o @]

AddChildren(nds, id, children) ==
    [nds EXCEPT ![id].Children = @ \o children]

\* a child was parsed
g1NodeChild ==
    /\ At("g1Node", "child")
    /\ ret.set
    /\ IF ret.err # NoErr
       THEN /\ Return(RetErr(ret.err))
            /\ UNCHANGED nodes
       ELSE /\ nodes' = AddChildren(nodes, top.node, <<ret.node>>)
            /\ Goto(top, "children")
    /\ UNCHANGED <<unm, visitor, firstRun, limits, lexed, lexEOF, consumed, delivered, mode, tokenBuffer, tokenTailBuffer,
                   forwardingNodes, result>>

\* the element is complete: a forwarding node is saved and another node is
\* parsed in its place, any other node is returned
g1NodeEnd ==
    /\ At("g1Node", "end")
    /\ UNCHANGED <<unm, visitor, firstRun, limits, lexed, lexEOF, consumed, delivered, mode, tokenBuffer, tokenTailBuffer,
                   result>>
    /\ IF top.forwardingNode
       THEN /\ forwardingNodes' = Append(forwardingNodes, top.node)
            /\ nodes' = Built(nodes, top.node, top.start, consumed)
            /\ Call(top, "forwarded", Frame("g1Node", "enter"))
       ELSE /\ forwardingNodes' = forwardingNodes
            /\ nodes' = Built([nodes EXCEPT ![top.node].End = LexerPos(lexed)],
                              top.node, top.start, consumed)
            /\ Return(RetNode(top.node))

\* the node parsed after a forwarding node is what g1Node returns
g1NodeForwarded ==
    /\ At("g1Node", "forwarded")
    /\ ret.set
    /\ Return(ret)
    /\ UNCHANGED <<unm, visitor, firstRun, limits, lexed, lexEOF, consumed, delivered, mode, tokenBuffer, tokenTailBuffer,
                   forwardingNodes, nodes, result>>

\* ------------------------------------------------------------------ g1LineNodes

\* Faulty variant: the mode is not changed after the '#' of the line
ModeInLineG2 == G2

\* p.mode = G1Line after the '#' of the line
ModeInLine == G1Line

\* expect the '#' or '##' that begins the line
g1LineNodesStart ==
    /\ At("g1LineNodes", "enter")
    /\ \E r \in next(TokenState, mode) :
         /\ SetTokenState(r.s)
         /\ IF r.err # NoErr
            THEN /\ Return(RetErr(r.err))
                 /\ mode' = mode
            ELSE IF r.tok.type = TokenDefineElement
            THEN /\ mode' = ModeInLine
                 /\ Goto([top EXCEPT !.forward = r.tok.forward], "loop")
            ELSE /\ Return(RetErr(TokPosError(r.tok,
                       "start of G1 line expected", {TokenDefineElement})))
                 /\ mode' = mode
    /\ UNCHANGED <<forwardingNodes, nodes, result>>

\* Faulty variant: the mode is left as it is after the line
ModeAfterLineKept == G1Line

\* p.mode = G2 after the loop of g1LineNodes
ModeAfterLine == G2

\* the loop over the nodes of the line, up to the G1LineEnd
g1LineNodesLoop ==
    /\ At("g1LineNodes", "loop")
    /\ \E r \in peek(TokenState, mode) :
         IF r.tok # NilTok /\ r.tok.type = TokenG1LineEnd
         THEN /\ SetTokenState((CHOOSE n \in next(r.s, mode) : TRUE).s)
              /\ mode' = ModeAfterLine
              /\ IF top.forward
                 THEN /\ forwardingNodes' = forwardingNodes \o top.nodes
                      /\ Return(RetList(<< >>))
                 ELSE /\ forwardingNodes' = forwardingNodes
                      /\ Return(RetList(top.nodes))
         ELSE /\ SetTokenState(r.s)
              /\ mode' = mode
              /\ forwardingNodes' = forwardingNodes
              /\ Call(top, "child", Frame("g1Node", "enter"))
    /\ UNCHANGED <<nodes, result>>

\* a node of the line was parsed
g1LineNodesChild ==
    /\ At("g1LineNodes", "child")
    /\ ret.set
    /\ IF ret.err # NoErr
       THEN Return(RetErr(ret.err))
       ELSE Goto([top EXCEPT !.nodes = Append(@, ret.node)], "loop")
    /\ UNCHANGED <<unm, visitor, firstRun, limits, lexed, lexEOF, consumed, delivered, mode, tokenBuffer, tokenTailBuffer,
                   forwardingNodes, nodes, result>>

\* ------------------------------------------------------------------ g2Node

\* g2Node sets the end of the node's range and returns the node
g2NodeReturn(nds, f) ==
    /\ nodes' = Built([nds EXCEPT ![f.node].End = LexerPos(lexed')],
                      f.node, f.start, consumed')
    /\ Return(RetNode(f.node))

\* g2Node begins: a new node, and the forward attributes are parsed
g2NodeEnter ==
    /\ At("g2Node", "enter")
    /\ nodes' = Append(nodes, [NewNode("invalid name") EXCEPT
                                  !.Begin = LexerPos(lexed)])
    /\ UNCHANGED <<unm, visitor, firstRun, limits, lexed, lexEOF, consumed, delivered, mode, tokenBuffer, tokenTailBuffer,
                   forwardingNodes, result>>
    /\ Call([top EXCEPT !.node = Len(nodes) + 1], "element", PAFrame(TRUE))

\* Faulty variant: a text takes forward attributes without complaint
ForwardedIntoTextIgnored(forwardedAttributes) == FALSE

\* len(forwardedAttributes) > 0: attributes were forwarded into a text
ForwardedIntoText(forwardedAttributes) == DOMAIN forwardedAttributes # {}

\* expect an Identifier or a CharData; an element takes the forwarding nodes
\* in and its attributes are parsed
g2NodeElement ==
    /\ At("g2Node", "element")
    /\ ret.set
    /\ IF ret.err # NoErr
       THEN /\ Return(RetErr(ret.err))
            /\ UNCHANGED <<unm, visitor, firstRun, limits, lexed, lexEOF, consumed, delivered, tokenBuffer, tokenTailBuffer,
                           nodes, forwardingNodes>>
       ELSE \E r \in next(TokenState, mode) :
              /\ SetTokenState(r.s)
              /\ IF r.err # NoErr
                 THEN /\ Return(RetErr(r.err))
                      /\ UNCHANGED <<nodes, forwardingNodes>>
                 ELSE IF r.tok.type = TokenIdentifier
                 THEN /\ nodes' = [nodes EXCEPT
                            ![top.node].Name = r.tok.value,
                            ![top.node].def = r.tok.pos,
                            ![top.node].Children = forwardingNodes]
                      /\ forwardingNodes' = << >>
                      /\ Call([top EXCEPT !.forwardedAttributes = ret.attrs],
                              "attributes", PAFrame(FALSE))
                 ELSE IF r.tok.type = TokenCharData
                 THEN /\ forwardingNodes' = forwardingNodes
                      /\ IF ForwardedIntoText(ret.attrs)
                         THEN /\ Return(RetErr(TokPosError(r.tok,
                                    "attributes cannot be forwarded into this text",
                                    {TokenCharData})))
                              /\ UNCHANGED nodes
                         ELSE /\ nodes' = [nodes EXCEPT
                                              ![top.node] = NewTextNode(r.tok)]
                              /\ Return(RetNode(top.node))
                 ELSE /\ Return(RetErr(TokPosError(r.tok,
                            "this token is not valid here",
                            {TokenCharData, TokenIdentifier})))
                      /\ UNCHANGED <<nodes, forwardingNodes>>
    /\ UNCHANGED <<mode, result>>

BlockTypeOf(tokenType) ==
    CASE tokenType = TokenBlockStart -> BlockNormal
      [] tokenType = TokenGroupStart -> BlockGroup
      [] tokenType = TokenGenericStart -> BlockGeneric

\* merge the attributes and process the children: the switch on the next token
g2NodeAttributes ==
    /\ At("g2Node", "attributes")
    /\ ret.set
    /\ IF ret.err # NoErr
       THEN /\ Return(RetErr(ret.err))
            /\ UNCHANGED <<unm, visitor, firstRun, limits, lexed, lexEOF, consumed, delivered, tokenBuffer, tokenTailBuffer,
                           nodes>>
       ELSE \E r \in peek(TokenState, mode) :
            \E attributes \in Merge(top.forwardedAttributes, ret.attrs) :
              LET merged == [nodes EXCEPT ![top.node].Attributes = attributes]
                  popped == (CHOOSE n \in next(r.s, mode) : TRUE).s
              IN  IF r.err # NoErr
                  THEN /\ SetTokenState(r.s)
                       /\ nodes' = merged
                       /\ Return(RetErr(r.err))
                  ELSE IF r.tok.type = TokenCharData
                  THEN /\ SetTokenState(popped)
                       /\ g2NodeReturn(
                            AddChildren(Append(merged, NewTextNode(r.tok)),
                                        top.node, <<Len(nodes) + 1>>), top)
                  ELSE IF r.tok.type = TokenDefineElement
                  THEN /\ SetTokenState(r.s)
                       /\ nodes' = merged
                       /\ Call(top, "line", Frame("g1LineNodes", "enter"))
                  ELSE IF r.tok.type \in {TokenBlockStart, TokenGenericStart,
                                          TokenGroupStart}
                  THEN /\ SetTokenState(popped)
                       /\ nodes' = [merged EXCEPT ![top.node].BlockType =
                                       BlockTypeOf(r.tok.type)]
                       /\ Goto(top, "children")
                  ELSE IF r.tok.type \in {TokenBlockEnd, TokenGroupEnd,
                                          TokenGenericEnd}
                  THEN /\ SetTokenState(r.s)
                       /\ g2NodeReturn(merged, top)
                  ELSE IF r.tok.type = TokenComma
                  THEN /\ SetTokenState(popped)
                       /\ g2NodeReturn(merged, top)
                  ELSE /\ SetTokenState(r.s)
                       /\ nodes' = merged
                       /\ Call(top, "child", Frame("g2Node", "enter"))
    /\ UNCHANGED <<mode, forwardingNodes, result>>

\* the nodes of a G1 line after the element were parsed
g2NodeLine ==
    /\ At("g2Node", "line")
    /\ ret.set
    /\ UNCHANGED <<unm, visitor, firstRun, limits, lexed, lexEOF, consumed, delivered, mode, tokenBuffer, tokenTailBuffer,
                   forwardingNodes, result>>
    /\ IF ret.err # NoErr
       THEN /\ Return(RetErr(ret.err))
            /\ UNCHANGED nodes
       ELSE g2NodeReturn(AddChildren(nodes, top.node, ret.list), top)

\* the node nested in the element was parsed
g2NodeChild ==
    /\ At("g2Node", "child")
    /\ ret.set
    /\ UNCHANGED <<unm, visitor, firstRun, limits, lexed, lexEOF, consumed, delivered, mode, tokenBuffer, tokenTailBuffer,
                   forwardingNodes, result>>
    /\ IF ret.err # NoErr
       THEN /\ Return(RetErr(ret.err))
            /\ UNCHANGED nodes
       ELSE g2NodeReturn(AddChildren(nodes, top.node, <<ret.node>>), top)

\* the loop over the children of a block: stop at the matching closing token,
\* parse a G1 line at a DefineElement, else parse a child
g2NodeChildren ==
    /\ At("g2Node", "children")
    /\ \E r \in peek(TokenState, mode) :
         IF r.err # NoErr
         THEN /\ SetTokenState(r.s)
              /\ Return(RetErr(r.err))
              /\ UNCHANGED nodes
         ELSE IF isClosedBy(nodes[top.node], r.tok)
         THEN /\ SetTokenState((CHOOSE n \in next(r.s, mode) : TRUE).s)
              /\ g2NodeReturn(nodes, top)
         ELSE IF r.tok.type = TokenDefineElement
         THEN /\ SetTokenState(r.s)
              /\ Call(top, "blockLine", Frame("g1LineNodes", "enter"))
              /\ UNCHANGED nodes
         ELSE /\ SetTokenState(r.s)
              /\ Call(top, "blockChild", Frame("g2Node", "enter"))
              /\ UNCHANGED nodes
    /\ UNCHANGED <<mode, forwardingNodes, result>>

\* the nodes of a G1 line in the block were parsed
g2NodeBlockLine ==
    /\ At("g2Node", "blockLine")
    /\ ret.set
    /\ IF ret.err # NoErr
       THEN /\ Return(RetErr(ret.err))
            /\ UNCHANGED nodes
       ELSE /\ nodes' = AddChildren(nodes, top.node, ret.list)
            /\ Goto(top, "children")
    /\ UNCHANGED <<unm, visitor, firstRun, limits, lexed, lexEOF, consumed, delivered, mode, tokenBuffer, tokenTailBuffer,
                   forwardingNodes, result>>

\* a child of the block was parsed
g2NodeBlockChild ==
    /\ At("g2Node", "blockChild")
    /\ ret.set
    /\ IF ret.err # NoErr
       THEN /\ Return(RetErr(ret.err))
            /\ UNCHANGED nodes
       ELSE /\ nodes' = AddChildren(nodes, top.node, <<ret.node>>)
            /\ Goto(top, "children")
    /\ UNCHANGED <<unm, visitor, firstRun, limits, lexed, lexEOF, consumed, delivered, mode, tokenBuffer, tokenTailBuffer,
                   forwardingNodes, result>>

\* ------------------------------------------------------------------ specification

Next ==
    \/ Parse
    \/ ParseReturn
    \/ parseAttributesLoop
    \/ parseAttributesKey
    \/ parseAttributesDelimiter
    \/ parseAttributesValue
    \/ parseAttributesClose
    \/ g1NodeEnter
    \/ g1NodeElement
    \/ g1NodeName
    \/ g1NodeAttributes
    \/ g1NodeChildren
    \/ g1NodeChild
    \/ g1NodeEnd
    \/ g1NodeForwarded
    \/ g1LineNodesStart
    \/ g1LineNodesLoop
    \/ g1LineNodesChild
    \/ g2NodeEnter
    \/ g2NodeElement
    \/ g2NodeAttributes
    \/ g2NodeLine
    \/ g2NodeChild
    \/ g2NodeChildren
    \/ g2NodeBlockLine
    \/ g2NodeBlockChild

Spec == Init /\ [][Next]_vars

\* the actions of a document of grammar G1
NextG1 ==
    \/ Parse
    \/ ParseReturn
    \/ parseAttributesLoop
    \/ parseAttributesKey
    \/ parseAttributesDelimiter
    \/ parseAttributesValue
    \/ parseAttributesClose
    \/ g1NodeEnter
    \/ g1NodeElement
    \/ g1NodeName
    \/ g1NodeAttributes
    \/ g1NodeChildren
    \/ g1NodeChild
    \/ g1NodeEnd
    \/ g1NodeForwarded

\* the bounds of an input of grammar G1: elements, texts and attributes
G1Input ==
    [AnyInput EXCEPT
        !.total = G1Tokens,
        !.LexError = 0,
        !.idents = 1,
        !.texts = 1,
        ![TokenIdentifier] = G1Tokens,
        ![TokenCharData] = G1Texts,
        ![TokenDefineElement] = G1Elements,
        ![TokenDefineAttribute] = G1Attributes,
        ![TokenBlockStart] = G1Blocks,
        ![TokenBlockEnd] = G1Blocks,
        ![TokenG2Preamble] = 0]

SpecG1 == InitWith(G1Input) /\ [][NextG1]_vars

\* the bounds of an input of grammar G1 with several attributes
AttrInput ==
    [AnyInput EXCEPT
        !.total = AttrTokens,
        !.LexError = 0,
        ![TokenIdentifier] = AttrTokens,
        ![TokenCharData] = AttrAttributes,
        ![TokenDefineElement] = AttrElements,
        ![TokenDefineAttribute] = AttrAttributes,
        ![TokenBlockStart] = AttrAttributes,
        ![TokenBlockEnd] = AttrAttributes,
        ![TokenG2Preamble] = 0]

SpecAttr == InitWith(AttrInput) /\ [][NextG1]_vars

\* the actions of a document of grammar G2 without attributes and G1 lines
NextG2 ==
    \/ Parse
    \/ ParseReturn
    \/ parseAttributesLoop
    \/ g2NodeEnter
    \/ g2NodeElement
    \/ g2NodeAttributes
    \/ g2NodeChild
    \/ g2NodeChildren
    \/ g2NodeBlockChild

\* the bounds of an input of grammar G2: identifiers, commas, texts, arrows
\* and blocks in curly brackets and parentheses
G2Input ==
    [AnyInput EXCEPT
        !.total = G2Tokens,
        !.LexError = 0,
        !.idents = 1,
        !.texts = 1,
        !.onlyG2 = 1,
        ![TokenIdentifier] = G2Tokens,
        ![TokenCharData] = G2Texts,
        ![TokenComma] = G2Commas,
        ![TokenBlockStart] = G2Blocks,
        ![TokenBlockEnd] = G2Blocks,
        ![TokenGroupStart] = G2Groups,
        ![TokenGroupEnd] = G2Groups,
        ![TokenG2Preamble] = 1,
        ![TokenDefineElement] = 0,
        ![TokenDefineAttribute] = 0,
        ![TokenGenericStart] = 0,
        ![TokenGenericEnd] = 0,
        ![TokenAssign] = 0,
        ![TokenG2Arrow] = G2Arrows]

SpecG2 == InitWith(G2Input) /\ [][NextG2]_vars

\* the actions of a document of grammar G2 with G1 lines, without attributes
NextLine ==
    \/ Parse
    \/ ParseReturn
    \/ parseAttributesLoop
    \/ g1NodeEnter
    \/ g1NodeElement
    \/ g1NodeName
    \/ g1NodeAttributes
    \/ g1NodeEnd
    \/ g1NodeForwarded
    \/ g1LineNodesStart
    \/ g1LineNodesLoop
    \/ g1LineNodesChild
    \/ g2NodeEnter
    \/ g2NodeElement
    \/ g2NodeAttributes
    \/ g2NodeLine
    \/ g2NodeChild
    \/ g2NodeChildren
    \/ g2NodeBlockLine
    \/ g2NodeBlockChild

\* the bounds of an input of grammar G2 with G1 lines: one block in curly
\* brackets, identifiers, texts, and lines of elements and texts
LineInput ==
    [AnyInput EXCEPT
        !.total = LineTokens,
        !.LexError = 0,
        !.idents = 1,
        !.texts = 1,
        !.onlyG2 = 1,
        ![TokenIdentifier] = LineTokens,
        ![TokenCharData] = LineTexts,
        ![TokenDefineElement] = LineElements,
        ![TokenG1LineEnd] = LineEnds,
        ![TokenBlockStart] = 1,
        ![TokenBlockEnd] = 1,
        ![TokenG2Preamble] = 1,
        ![TokenDefineAttribute] = 0,
        ![TokenComma] = 0,
        ![TokenGroupStart] = 0,
        ![TokenGroupEnd] = 0,
        ![TokenGenericStart] = 0,
        ![TokenGenericEnd] = 0,
        ![TokenAssign] = 0,
        ![TokenG2Arrow] = 0]

SpecLine == InitWith(LineInput) /\ [][NextLine]_vars

\* the actions of a document of grammar G2 with attributes, without G1 lines
NextG2Attr ==
    \/ Parse
    \/ ParseReturn
    \/ parseAttributesLoop
    \/ parseAttributesKey
    \/ parseAttributesDelimiter
    \/ parseAttributesValue
    \/ g2NodeEnter
    \/ g2NodeElement
    \/ g2NodeAttributes
    \/ g2NodeChild
    \/ g2NodeChildren
    \/ g2NodeBlockChild

\* the bounds of an input of grammar G2 with attributes: identifiers, texts,
\* forward and non-forward attributes, commas and a block in curly brackets
G2AttrInput ==
    [AnyInput EXCEPT
        !.total = G2AttrTokens,
        !.LexError = 0,
        !.idents = 1,
        !.texts = 2,
        !.onlyG2 = 1,
        ![TokenIdentifier] = G2AttrTokens,
        ![TokenCharData] = G2AttrTexts,
        ![TokenDefineAttribute] = G2AttrAttributes,
        ![TokenAssign] = G2AttrAttributes,
        ![TokenComma] = G2AttrCommas,
        ![TokenBlockStart] = G2AttrBlocks,
        ![TokenBlockEnd] = G2AttrBlocks,
        ![TokenGroupStart] = 0,
        ![TokenGroupEnd] = 0,
        ![TokenG2Preamble] = 1,
        ![TokenDefineElement] = 0,
        ![TokenGenericStart] = 0,
        ![TokenGenericEnd] = 0,
        ![TokenG2Arrow] = 0,
        ![TokenG1LineEnd] = 0]

SpecG2Attr == InitWith(G2AttrInput) /\ [][NextG2Attr]_vars

\* the bounds of an input of grammar G1 or G2 with attributes, where a
\* quoted string of G2 may be empty
SyntaxInput ==
    [AnyInput EXCEPT
        !.total = SyntaxTokens,
        !.LexError = 0,
        !.idents = 1,
        !.texts = 1,
        !.emptyTexts = 1,
        ![TokenIdentifier] = SyntaxTokens,
        ![TokenCharData] = SyntaxTexts,
        ![TokenDefineElement] = SyntaxElements,
        ![TokenDefineAttribute] = SyntaxAttributes,
        ![TokenBlockStart] = 1,
        ![TokenBlockEnd] = 1,
        ![TokenAssign] = 1,
        ![TokenG2Preamble] = 1,
        ![TokenG1LineEnd] = 1,
        ![TokenComma] = 0,
        ![TokenGroupStart] = 0,
        ![TokenGroupEnd] = 0,
        ![TokenGenericStart] = 0,
        ![TokenGenericEnd] = 0,
        ![TokenG2Arrow] = 0]

SpecSyntax == InitWith(SyntaxInput) /\ [][Next]_vars

\* the texts of up to MaxTextLen characters
TextsUpTo(n) == UNION {[1..k -> TextChars] : k \in 1..n}

\* the calls of Unmarshal explored: the tree has a child V with a text or
\* none, and a child W or none; the target has a field V of any type and a
\* field W, a string, or only the field V
UnmarshalCalls ==
    {[stage |-> "called", children |-> c, fields |-> f, strict |-> s,
      err |-> FALSE, values |-> << >>] :
        c \in {[n \in {} |-> << >>]}
               \cup {[n \in {"V"} |-> t] : t \in TextsUpTo(MaxTextLen)}
               \cup {[n \in {"W"} |-> <<"0">>]}
               \cup {[n \in {"V", "W"} |-> IF n = "V" THEN t ELSE <<"0">>] :
                        t \in {<<"3">>, <<"3", "0", "0">>}},
        f \in {[n \in {"V"} |-> ty] : ty \in FieldTypes}
               \cup {[n \in {"V", "W"} |-> IF n = "V" THEN ty ELSE StringType] :
                        ty \in FieldTypes},
        s \in BOOLEAN}

\* Unmarshal returns
UnmarshalReturn ==
    /\ unm.stage = "called"
    /\ LET r == Unmarshal(unm.children, unm.fields, unm.strict)
       IN  unm' = [unm EXCEPT !.stage = "returned", !.err = r.err,
                              !.values = r.values]
    /\ UNCHANGED <<visitor, firstRun, limits, lexed, lexEOF, consumed, delivered, mode, tokenBuffer,
                   tokenTailBuffer, forwardingNodes, nodes, stack, ret, result>>

NextUnmarshal == UnmarshalReturn

SpecUnmarshal ==
    /\ NewParser(AnyInput)
    /\ unm \in UnmarshalCalls
    /\ visitor = NoVisitor
    /\ [][NextUnmarshal]_vars

\* the tree below node id as a value: names, texts, attributes, block types
\* and the children in their order
RECURSIVE TreeOf(_)
TreeOf(id) ==
    [Name |-> nodes[id].Name, IsText |-> nodes[id].IsText,
     Text |-> nodes[id].Text, Attributes |-> nodes[id].Attributes,
     BlockType |-> nodes[id].BlockType,
     Children |-> [i \in 1..Len(nodes[id].Children) |->
                      TreeOf(nodes[id].Children[i])]]

\* NewParser once more, after Parse has returned: a second parser, whose
\* lexer is given the token stream of the first; what the first parser read
\* and returned is kept in firstRun
NewParserSameInput ==
    /\ result.status \in {"tree", "error", "panic"}
    /\ ~firstRun.done
    /\ unm' = unm
    /\ visitor' = visitor
    /\ firstRun' = [done |-> TRUE, lexed |-> lexed, eof |-> lexEOF,
                    status |-> result.status, err |-> result.err,
                    tree |-> IF result.status = "tree"
                             THEN TreeOf(result.tree) ELSE << >>]
    /\ limits' = limits
    /\ lexed' = << >>
    /\ lexEOF' = FALSE
    /\ consumed' = 0
    /\ delivered' = << >>
    /\ mode' = G1
    /\ tokenBuffer' = << >>
    /\ tokenTailBuffer' = << >>
    /\ forwardingNodes' = << >>
    /\ nodes' = << >>
    /\ stack' = << >>
    /\ ret' = NoRet
    /\ result' = [status |-> "init", tree |-> 0, err |-> NoErr]

\* two parsers, one after the other, on the same input
NextTwice ==
    \/ NextG1
    \/ NewParserSameInput

\* the bounds of an input of grammar G1 with several attributes that all have
\* the same key
TwiceInput == [AttrInput EXCEPT !.idents = 1]

SpecTwice == InitWith(TwiceInput) /\ [][NextTwice]_vars

TypeOK ==
    /\ result.status \in {"init", "running", "tree", "error", "panic"}
    /\ Len(lexed) <= limits.total


\* ------------------------------------------------------------------ trees

\* Parse has returned
Done == result.status \in {"tree", "error", "panic"}

\* Parse has returned a tree
Accepted == result.status = "tree"

\* the root of the tree Parse returned
Root == nodes[result.tree]

\* the nodes of the tree below and including node id
RECURSIVE Subtree(_)
Subtree(id) ==
    {id} \cup UNION {Subtree(nodes[id].Children[i]) :
                        i \in 1..Len(nodes[id].Children)}

\* the nodes of the tree Parse returned
TreeNodes == Subtree(result.tree)

\* the elements of the tree Parse returned
Elements == {id \in TreeNodes : ~nodes[id].IsText}

\* the types of the tokens of the input
Types == [i \in 1..Len(lexed) |-> lexed[i].type]

\* the whole input was read and it is a document of grammar G2
IsG2Document == Len(lexed) > 0 /\ lexed[1].type = TokenG2Preamble

\* ------------------------------------------------------------------ claims

\* C1: whenever Parse returns a tree, for a G1 document as for a G2 document,
\* the node returned is an element named "root" whose block type is
\* BlockNormal.
C1_RootIsRootWithCurlyBrackets ==
    Accepted =>
        /\ ~Root.IsText
        /\ Root.Name = "root"
        /\ Root.BlockType = BlockNormal

\* a G2 document whose root has a block with a child was accepted
C1_Witness ==
    /\ Accepted
    /\ IsG2Document
    /\ Len(Root.Children) > 0

\* C2: when the first Token() call of the lexer returns EOF, Parse returns
\* the root element with no children and no attributes; the EOF is not left
\* in the token buffer and the BlockEnd of the tail buffer was consumed.
C2_EmptyInputIsEmptyRoot ==
    (Done /\ lexed = << >>) =>
        /\ Accepted
        /\ Root.Name = "root"
        /\ Root.Children = << >>
        /\ DOMAIN Root.Attributes = {}
        /\ tokenBuffer = << >>
        /\ tokenTailBuffer = << >>

\* Parse has returned for the empty input
C2_Witness ==
    /\ Done
    /\ lexed = << >>
    /\ lexEOF

\* C6: whenever Parse returns a tree the forwardingNodes buffer is empty, and
\* whenever a forwarded node is pending after the root was parsed, Parse
\* returns an error.
C6_NoForwardingNodeLeft ==
    /\ Accepted => forwardingNodes = << >>
    /\ (Done /\ forwardingNodes # << >>) => result.status \in {"error", "panic"}
    /\ (result.status = "running" /\ stack = << >> /\ ret.set /\ ret.err = NoErr
            /\ forwardingNodes # << >>) =>
         ~ENABLED (ParseReturn /\ result'.status = "tree")

\* Parse has returned the error of a forwarded node left over after the root
\* was parsed
C6_Witness ==
    /\ result.status = "error"
    /\ result.err.msg = "there is no node to forward this node into"
    /\ forwardingNodes # << >>


\* ------------------------------------------------------------------ the input of G1

\* the attributes written in the syntax of G1, one after the other from
\* position p on, all forward (f) or all not
RECURSIVE AttributesFrom(_, _)
AttributesFrom(p, f) ==
    IF /\ p + 4 <= Len(lexed)
       /\ lexed[p].type = TokenDefineAttribute
       /\ lexed[p].forward = f
       /\ lexed[p + 1].type = TokenIdentifier
       /\ lexed[p + 2].type = TokenBlockStart
       /\ lexed[p + 3].type = TokenCharData
       /\ lexed[p + 4].type = TokenBlockEnd
    THEN LET rest == AttributesFrom(p + 5, f)
         IN  [k \in (DOMAIN rest) \cup {lexed[p + 1].value} |->
                IF k = lexed[p + 1].value THEN lexed[p + 3].value ELSE rest[k]]
    ELSE [k \in {} |-> ""]

\* the forward attributes written before the '#' or '##' of the element n of
\* G1, and the attributes written after its name
ForwardAttributesOf(n) == AttributesFrom(nodes[n].first, TRUE)
OwnAttributesOf(n) == AttributesFrom(nodes[n].def + 2, FALSE)

\* the forwarding elements of the input (declared with '##')
ForwardingElements ==
    {id \in 1..Len(nodes) : ~nodes[id].IsText /\ nodes[id].fwd /\ nodes[id].last > 0}

\* the forwarding elements written one after the other right before
\* position p, in the order of the document
RECURSIVE RunBefore(_)
RunBefore(p) ==
    LET ending == {f \in ForwardingElements : nodes[f].last = p - 1}
    IN  IF ending = {} THEN << >>
        ELSE LET f == CHOOSE f \in ending : TRUE
             IN  Append(RunBefore(nodes[f].first), f)

\* the regular (not forwarding) elements of the tree other than the root
RegularElements ==
    {e \in Elements : ~nodes[e].fwd /\ nodes[e].first > 0 /\ e # result.tree}

\* C3 (as claimed): in a tree of G1, the k >= 1 forwarding elements written
\* one after the other right before a regular element E are all children of
\* E: the children of E written before E end with these k elements, in the
\* order of the document, and the children written inside E come after them.
C3_RunIsForwardedIntoNextElement ==
    Accepted =>
        \A e \in RegularElements :
            LET run == RunBefore(nodes[e].first)
                WrittenBefore(c) == nodes[c].last < nodes[e].first
                forwarded == SelectSeq(nodes[e].Children, WrittenBefore)
                n == Len(forwarded)
            IN  /\ n >= Len(run)
                /\ SubSeq(forwarded, n - Len(run) + 1, n) = run
                /\ SubSeq(nodes[e].Children, 1, n) = forwarded

\* the forwarding element x is written right before the regular element y
\* of the tree, and forward attributes are written before x
AttributesThenForwardingThenRegular(x, y) ==
    /\ x \in ForwardingElements
    /\ y \in RegularElements
    /\ nodes[y].first = nodes[x].last + 1
    /\ DOMAIN ForwardAttributesOf(x) # {}

\* C4 (as claimed): when forward attributes are followed by a forwarding
\* element x and then a regular element y, the attributes are merged into y
\* and x does not receive them.
C4_ForwardAttributesSkipForwardingElement ==
    Accepted =>
        \A x \in ForwardingElements, y \in RegularElements :
            AttributesThenForwardingThenRegular(x, y) =>
                /\ DOMAIN ForwardAttributesOf(x) \subseteq DOMAIN nodes[y].Attributes
                /\ DOMAIN ForwardAttributesOf(x) \cap DOMAIN nodes[x].Attributes = {}

\* the attributes a hold the attributes fa, but for the keys in own
HoldsBut(a, fa, own) ==
    \A k \in DOMAIN fa :
        /\ k \in DOMAIN a
        /\ k \notin DOMAIN own => a[k] = fa[k]

\* C4 (amended): when forward attributes are followed by a forwarding
\* element x and then a regular element y, the attributes are merged into x,
\* and y has no attributes but those written before and after its own name.
C4_ForwardAttributesStayWithForwardingElement ==
    Accepted =>
        \A x \in ForwardingElements, y \in RegularElements :
            AttributesThenForwardingThenRegular(x, y) =>
                /\ HoldsBut(nodes[x].Attributes, ForwardAttributesOf(x),
                            OwnAttributesOf(x))
                /\ DOMAIN nodes[y].Attributes =
                     DOMAIN ForwardAttributesOf(y) \cup DOMAIN OwnAttributesOf(y)

\* a tree in which forward attributes are followed by a forwarding element
\* and then a regular element
C4_Witness ==
    /\ Accepted
    /\ \E x \in ForwardingElements, y \in RegularElements :
         AttributesThenForwardingThenRegular(x, y)

\* C5: the forward attributes written before an element of G1 are in the
\* attributes of that element, be it regular or forwarding.
C5_ForwardAttributesGoToFollowingElement ==
    Accepted =>
        \A n \in Elements \ {result.tree} :
            HoldsBut(nodes[n].Attributes, ForwardAttributesOf(n),
                     OwnAttributesOf(n))

\* a tree with a regular element that forward attributes are written before
C5_Witness ==
    /\ Accepted
    /\ \E n \in RegularElements : DOMAIN ForwardAttributesOf(n) # {}

\* after position p the input holds nothing but text up to a '}' or its end
OnlyTextFollows(p) ==
    \E j \in p..Len(lexed) :
        /\ \A i \in (p + 1)..j : lexed[i].type = TokenCharData
        /\ \/ j = Len(lexed) /\ lexEOF
           \/ j < Len(lexed) /\ lexed[j + 1].type = TokenBlockEnd

\* C7 (as claimed): when Parse returns with a forwarding element pending that
\* nothing but text follows, up to a closing '}' or the end of the input, it
\* returns an error at the position of the '##' of the first pending element.
C7_DanglingForwardIsErrorAtDeclaration ==
    (Done /\ forwardingNodes # << >>) =>
        LET f == nodes[forwardingNodes[1]]
        IN  (f.fwd /\ OnlyTextFollows(f.last)) =>
                /\ result.status = "error"
                /\ result.err.begin = f.def


\* the keys of the attributes written in the syntax of G1, one after the
\* other right before position p, all forward (f) or all not
RECURSIVE KeysBefore(_, _)
KeysBefore(p, f) ==
    IF /\ p - 5 >= 1
       /\ lexed[p - 5].type = TokenDefineAttribute
       /\ lexed[p - 5].forward = f
       /\ lexed[p - 4].type = TokenIdentifier
       /\ lexed[p - 3].type = TokenBlockStart
       /\ lexed[p - 2].type = TokenCharData
       /\ lexed[p - 1].type = TokenBlockEnd
    THEN {lexed[p - 4].value} \cup KeysBefore(p - 5, f)
    ELSE {}

\* the token at position j is the key of an attribute, and an attribute
\* before it in the same list of attributes has the same key
DuplicateKeyAt(j) ==
    /\ j >= 2
    /\ lexed[j].type = TokenIdentifier
    /\ lexed[j - 1].type = TokenDefineAttribute
    /\ lexed[j].value \in KeysBefore(j - 1, lexed[j - 1].forward)

C9_ForwardAndOwnKeyCollisionIsError ==
    Accepted =>
        \A n \in Elements \ {result.tree} :
            DOMAIN ForwardAttributesOf(n) \cap DOMAIN OwnAttributesOf(n) = {}


\* ------------------------------------------------------------------ the input of G2

OpeningTypes == {TokenBlockStart, TokenGroupStart, TokenGenericStart}
ClosingTypes == {TokenBlockEnd, TokenGroupEnd, TokenGenericEnd}

\* the token at position i is written inside a block: more brackets are
\* opened than closed before it
InBlock(i) ==
    Cardinality({j \in 1..(i - 1) : lexed[j].type \in OpeningTypes})
        > Cardinality({j \in 1..(i - 1) : lexed[j].type \in ClosingTypes})

\* the first of the identifiers written one after the other up to position i
RECURSIVE HeadOf(_)
HeadOf(i) ==
    IF i - 1 >= 1 /\ lexed[i - 1].type = TokenIdentifier THEN HeadOf(i - 1) ELSE i

\* the elements of the tree whose name is the identifier at position i
NamedAt(i) == {n \in Elements : nodes[n].def = i}

\* node b is the sibling that follows node a
FollowsAsSibling(a, b) ==
    \E p \in Elements :
        \E k \in 1..(Len(nodes[p].Children) - 1) :
            /\ nodes[p].Children[k] = a
            /\ nodes[p].Children[k + 1] = b

\* C10: in a tree of G2, an element named inside a block by an identifier
\* that another identifier follows has exactly one child, the element named
\* by that identifier; an element that a comma or a closing token follows has
\* no child, and the element named after the comma is the sibling that
\* follows the first element of the run of identifiers.
C10_BareIdentifiersNest ==
    (Accepted /\ IsG2Document) =>
        \A i \in 2..(Len(lexed) - 1) :
            \A n \in NamedAt(i) :
                InBlock(i) =>
                    /\ lexed[i + 1].type = TokenIdentifier =>
                         /\ Len(nodes[n].Children) = 1
                         /\ nodes[n].Children[1] \in NamedAt(i + 1)
                    /\ lexed[i + 1].type \in ClosingTypes \cup {TokenComma} =>
                         nodes[n].Children = << >>
                    /\ (/\ lexed[i + 1].type = TokenComma
                        /\ i + 2 <= Len(lexed)
                        /\ lexed[i + 2].type = TokenIdentifier) =>
                         \E h \in NamedAt(HeadOf(i)) :
                             \E c \in NamedAt(i + 2) : FollowsAsSibling(h, c)

\* a tree of G2 with a run of three identifiers in a block, a comma and
\* another identifier
C10_Witness ==
    /\ Accepted
    /\ IsG2Document
    /\ \E i \in 3..(Len(lexed) - 4) :
         /\ InBlock(i)
         /\ lexed[i - 1].type # TokenIdentifier
         /\ \A j \in i..(i + 2) : lexed[j].type = TokenIdentifier
         /\ lexed[i + 3].type = TokenComma
         /\ lexed[i + 4].type = TokenIdentifier
         /\ NamedAt(i + 4) # {}

\* ------------------------------------------------------------------ blocks and texts of G2

\* how many more brackets are opened than closed in the first i tokens
Depth(i) ==
    Cardinality({j \in 1..i : lexed[j].type \in OpeningTypes})
        - Cardinality({j \in 1..i : lexed[j].type \in ClosingTypes})

\* the closing tokens after the opening token at position o that end its block
ClosesOf(o) ==
    {e \in (o + 1)..Len(lexed) :
        lexed[e].type \in ClosingTypes /\ Depth(e) = Depth(o - 1)}

\* the position of the token that closes the block opened at position o
MatchClose(o) == CHOOSE e \in ClosesOf(o) : \A x \in ClosesOf(o) : e <= x

\* the position of the token that opens the block closed at position e
MatchOpen(e) ==
    CHOOSE o \in 1..(e - 1) : ClosesOf(o) # {} /\ lexed[o].type \in OpeningTypes
                               /\ MatchClose(o) = e

\* the nodes of the tree, elements and texts, introduced at position i
NodesAt(i) == {n \in TreeNodes : nodes[n].def = i}

\* the positions at which the nodes below node n were introduced
DefsBelow(n) == {nodes[c].def : c \in Subtree(n) \ {n}}

\* the item (an element with what it holds, or a text) that ends at position
\* e begins at position ItemHead(e): a text that follows an identifier and a
\* block belong to the run of identifiers before them
ItemHead(e) ==
    IF lexed[e].type = TokenCharData
    THEN (IF lexed[e - 1].type = TokenIdentifier THEN HeadOf(e - 1) ELSE e)
    ELSE HeadOf(MatchOpen(e) - 1)

\* C11: in a tree of G2, an element named inside a block that a text follows
\* has that text as its only child; an element that a block follows has the
\* nodes written in the block below it, and the block type of the bracket;
\* the identifier or text written after the text or after the block is the
\* sibling that follows the item the text or the block belongs to, so texts
\* written one after the other in a block are sibling text leaves.
C11_BlockOrTextEndsNesting ==
    (Accepted /\ IsG2Document) =>
        /\ \A i \in 3..(Len(lexed) - 1) :
             (InBlock(i) /\ lexed[i].type = TokenIdentifier) =>
                \A n \in NamedAt(i) :
                    /\ lexed[i + 1].type = TokenCharData =>
                         /\ Len(nodes[n].Children) = 1
                         /\ nodes[n].Children[1] \in NodesAt(i + 1)
                         /\ nodes[nodes[n].Children[1]].IsText
                         /\ nodes[nodes[n].Children[1]].Text = lexed[i + 1].value
                    /\ lexed[i + 1].type \in OpeningTypes =>
                         /\ ClosesOf(i + 1) # {}
                         /\ nodes[n].BlockType = BlockTypeOf(lexed[i + 1].type)
                         /\ DefsBelow(n) =
                              {j \in (i + 2)..(MatchClose(i + 1) - 1) :
                                  lexed[j].type \in {TokenIdentifier, TokenCharData}}
        /\ \A e \in 3..(Len(lexed) - 1) :
             (/\ InBlock(e + 1)
              /\ lexed[e].type \in ClosingTypes \cup {TokenCharData}
              /\ lexed[e + 1].type \in {TokenIdentifier, TokenCharData}) =>
                \E h \in NodesAt(ItemHead(e)) :
                    \E c \in NodesAt(e + 1) : FollowsAsSibling(h, c)

\* a tree of G2 in which an element with a block that holds a node is
\* followed by an identifier
C11_Witness ==
    /\ Accepted
    /\ IsG2Document
    /\ \E i \in 3..(Len(lexed) - 4) :
         /\ InBlock(i)
         /\ lexed[i].type = TokenIdentifier
         /\ lexed[i + 1].type \in OpeningTypes
         /\ lexed[i + 2].type \in {TokenIdentifier, TokenCharData}
         /\ lexed[i + 3].type \in ClosingTypes
         /\ lexed[i + 4].type = TokenIdentifier
         /\ \E h \in NamedAt(i) : \E c \in NamedAt(i + 4) : FollowsAsSibling(h, c)

\* ------------------------------------------------------------------ the arrow of G2

\* the element that the arrow at position i follows: the one named just
\* before it, or the one whose block ends just before it
ArrowOwners(i) ==
    IF lexed[i - 1].type = TokenIdentifier
    THEN NamedAt(i - 1)
    ELSE NamedAt(MatchOpen(i - 1) - 1)

\* Parse returned the error of an unexpected token for the token at position i
RejectedAt(i) ==
    /\ result.status = "error"
    /\ result.err.kind = "PosError"
    /\ result.err.msg = "this token is not valid here"
    /\ result.err.begin = i

\* C12: in G2, an arrow that follows, inside a block, an identifier or the
\* block of an element begins the ret child of that element: Parse does not
\* reject the arrow as an unexpected token, and in the tree Parse returns the
\* last child of the element is an element named "ret" with the block type
\* of the bracket after the arrow and the nodes of that block below it; it
\* is the only child when the arrow follows the identifier.
C12_ArrowAppendsRet ==
    IsG2Document =>
        \A i \in 4..Len(lexed) :
            (/\ lexed[i].type = TokenG2Arrow
             /\ InBlock(i)
             /\ \/ lexed[i - 1].type = TokenIdentifier
                \/ /\ lexed[i - 1].type \in ClosingTypes
                   /\ lexed[MatchOpen(i - 1) - 1].type = TokenIdentifier) =>
                /\ ~RejectedAt(i)
                /\ (/\ Accepted
                    /\ i < Len(lexed)
                    /\ lexed[i + 1].type \in OpeningTypes) =>
                      \E n \in ArrowOwners(i) :
                          LET kids == nodes[n].Children
                              r == nodes[kids[Len(kids)]]
                          IN  /\ Len(kids) > 0
                              /\ ~r.IsText
                              /\ r.Name = "ret"
                              /\ r.BlockType = BlockTypeOf(lexed[i + 1].type)
                              /\ ClosesOf(i + 1) # {}
                              /\ DefsBelow(kids[Len(kids)]) =
                                   {j \in (i + 2)..(MatchClose(i + 1) - 1) :
                                       lexed[j].type \in {TokenIdentifier,
                                                          TokenCharData}}
                              /\ lexed[i - 1].type = TokenIdentifier =>
                                   Len(kids) = 1

\* ------------------------------------------------------------------ the end of the input

\* the lexer has reported the end of the input with a block still open; the
\* input has no attributes, so every bracket belongs to an element
EndsInOpenBlock ==
    /\ lexEOF
    /\ Depth(Len(lexed)) > 0
    /\ \A i \in 1..Len(lexed) :
         lexed[i].type \notin {TokenDefineAttribute, "LexError"}

\* the error e is at the end of the input: it is io.EOF, or its position is
\* that of the lexer at the end of the input
AtEndOfInput(e) ==
    \/ e.kind = "EOF"
    \/ e.kind = "PosError" /\ e.begin = LexerPos(lexed)

\* C13: when the input ends inside the block of an element, in G1 as in G2,
\* Parse returns an error, and the error is at the end of the input.
C13_OpenBlockIsErrorAtEOF ==
    (Done /\ EndsInOpenBlock) =>
        /\ result.status = "error"
        /\ AtEndOfInput(result.err)

\* ------------------------------------------------------------------ block types

\* the position of the identifier that names the element n
NamePos(n) ==
    IF lexed[nodes[n].def].type = TokenDefineElement
    THEN nodes[n].def + 1
    ELSE nodes[n].def

\* the element n was written with brackets: an opening token follows its name
\* (the input has no attributes)
HasBrackets(n) ==
    /\ NamePos(n) < Len(lexed)
    /\ lexed[NamePos(n) + 1].type \in OpeningTypes

\* the input has no attributes
NoAttributes == \A i \in 1..Len(lexed) : lexed[i].type # TokenDefineAttribute

\* C14: in a tree Parse returns, an element other than the root has the
\* block type BlockNone if and only if it was written without brackets; an
\* element written without brackets never has the block type BlockNormal,
\* BlockGroup or BlockGeneric.
C14_BlockNoneIffNoBrackets ==
    (Accepted /\ NoAttributes) =>
        \A n \in Elements :
            nodes[n].def > 0 =>
                (nodes[n].BlockType = BlockNone <=> ~HasBrackets(n))

\* ------------------------------------------------------------------ the form of a G2 document

\* C15: a G2 document in which the token after the preamble is not a
\* BlockStart (or in which nothing follows the preamble) is never accepted:
\* Parse returns an error.
C15_G2RootNeedsCurlyBrackets ==
    (/\ Done
     /\ IsG2Document
     /\ Len(lexed) < 2 \/ lexed[2].type # TokenBlockStart) =>
        result.status = "error"

\* ------------------------------------------------------------------ errors

\* C16: for every token stream, with the end of the input or a lexical error
\* at any point, Parse returns a tree or an error: it never calls a method
\* on a nil token.
C16_NoPanic ==
    /\ result.status # "panic"
    /\ Done => result.status \in {"tree", "error"}

\* the messages of the errors that report an unexpected token
UnexpectedTokenMessages ==
    {"this token is not valid here",
     "use a '}' here to close the element",
     "start of G1 line expected",
     "attributes cannot be forwarded into this text",
     "an identifier is required as an attribute key",
     "attribute value must be enclosed in '{}'",
     "'=' is expected here",
     "attribute value is required",
     "attribute value needs to be closed with '}'"}

\* C17: every error Parse returns, the errors of the lexer aside, is an
\* error with a position, and every error about an unexpected token lists
\* the token types expected in its place.
C17_ErrorsCarryPositionAndExpected ==
    (result.status = "error" /\ result.err.kind # "LexError") =>
        /\ result.err.kind = "PosError"
        /\ result.err.msg \in UnexpectedTokenMessages =>
             result.err.expected # {}

\* ------------------------------------------------------------------ the whole input

\* C18: when Parse returns a tree the input is exhausted: the lexer has
\* reported the end of the input, no token is left in the token buffer, and
\* the BlockEnd of the tail buffer was consumed.
C18_TreeMeansInputExhausted ==
    Accepted =>
        /\ lexEOF
        /\ tokenBuffer = << >>
        /\ tokenTailBuffer = << >>

\* ------------------------------------------------------------------ determinism

\* C19: a second parser that is given the token stream of the first returns
\* what the first returned: the same error, or a tree with the same names,
\* texts, attributes, block types and order of children.
C19_SameInputSameResult ==
    (firstRun.done /\ Done) =>
        /\ result.status = firstRun.status
        /\ result.err = firstRun.err
        /\ Accepted => TreeOf(result.tree) = firstRun.tree

\* a second parser has returned a tree with an element that was written
\* with a forward attribute and with an attribute of its own
C19_Witness ==
    /\ firstRun.done
    /\ Accepted
    /\ \E n \in Elements : DOMAIN nodes[n].Attributes # {}
    /\ \E i, j \in 1..Len(lexed) :
         /\ i < j
         /\ lexed[i].type = TokenDefineAttribute /\ lexed[i].forward
         /\ lexed[j].type = TokenDefineAttribute /\ ~lexed[j].forward

\* ------------------------------------------------------------------ the shape of a node

\* the identifiers and the texts of the input
IdentifiersRead ==
    {lexed[i].value : i \in {j \in 1..Len(lexed) : lexed[j].type = TokenIdentifier}}
TextsRead ==
    {lexed[i].value : i \in {j \in 1..Len(lexed) : lexed[j].type = TokenCharData}}

\* C20: every node of a tree Parse returns is either an element, with no
\* text and with a name that is not empty, not the placeholder "invalid name"
\* and is "root" or an identifier of the input, or a text leaf, with a text
\* of the input, an empty name, no children and no attributes.
C20_ElementOrTextLeaf ==
    Accepted =>
        \A n \in TreeNodes :
            IF nodes[n].IsText
            THEN /\ nodes[n].Text \in TextsRead
                 /\ nodes[n].Name = ""
                 /\ nodes[n].Children = << >>
                 /\ DOMAIN nodes[n].Attributes = {}
            ELSE /\ nodes[n].Text = ""
                 /\ nodes[n].Name # ""
                 /\ nodes[n].Name # "invalid name"
                 /\ nodes[n].Name \in IdentifiersRead \cup {"root"}
                 /\ nodes[n].Name = "root" => (n = result.tree \/ "root" \in IdentifiersRead)

\* a tree with an element below the root and a text leaf
C20_Witness ==
    /\ Accepted
    /\ \E n \in Elements : n # result.tree
    /\ \E n \in TreeNodes : nodes[n].IsText

\* ------------------------------------------------------------------ ranges

\* the range of node c lies within the range of node e
RangeWithin(c, e) ==
    /\ nodes[e].Begin <= nodes[c].Begin
    /\ nodes[c].End <= nodes[e].End

\* C21: for every element of a tree Parse returns, forwarded elements
\* included, the range does not end before it begins, it spans the tokens
\* consumed to build the element, from the first to the last, and the range
\* of every child lies within it.
C21_RangeSpansElement ==
    Accepted =>
        \A e \in Elements :
            /\ nodes[e].Begin <= nodes[e].End
            /\ nodes[e].first > 0 =>
                 /\ nodes[e].Begin <= nodes[e].first
                 /\ nodes[e].last <= nodes[e].End
            /\ \A i \in 1..Len(nodes[e].Children) :
                 RangeWithin(nodes[e].Children[i], e)

\* ------------------------------------------------------------------ G1 lines in G2

\* the position of the last G1LineEnd before position i, or 1
LineEndBefore(i) ==
    LET ends == {j \in 1..(i - 1) : lexed[j].type = TokenG1LineEnd}
    IN  IF ends = {} THEN 1 ELSE CHOOSE j \in ends : \A k \in ends : k <= j

\* the DefineElement at position i begins a G1 line: no other DefineElement
\* was written since the last line ended
IsLineStart(i) ==
    /\ lexed[i].type = TokenDefineElement
    /\ \A j \in (LineEndBefore(i) + 1)..(i - 1) :
         lexed[j].type # TokenDefineElement

\* the position of the G1LineEnd of the line that begins at position s
\* (0 if the line has no end)
LineEndOf(s) ==
    LET ends == {j \in (s + 1)..Len(lexed) : lexed[j].type = TokenG1LineEnd}
    IN  IF ends = {} THEN 0 ELSE CHOOSE j \in ends : \A k \in ends : j <= k

\* the nodes of the line that begins at position s: the nodes introduced in
\* the line, outside the brackets of the line; a forwarding element (##) in
\* the line is not one of them, it belongs to the element written after it
NodesOfLine(s) ==
    {n \in TreeNodes :
        /\ ~nodes[n].fwd
        /\ s < nodes[n].def
        /\ nodes[n].def < LineEndOf(s)
        /\ Depth(nodes[n].def) = Depth(s)}

\* the texts and the elements written in the line that begins at position
\* s, outside brackets, forwarding elements aside
WrittenInLine(s) ==
    {p \in (s + 1)..(LineEndOf(s) - 1) :
        /\ lexed[p].type \in {TokenCharData, TokenDefineElement}
        /\ ~lexed[p].forward
        /\ Depth(p) = Depth(s)}

\* the element of the tree that has node n as a child
ParentOf(n) == {e \in Elements : \E i \in 1..Len(nodes[e].Children) :
                                     nodes[e].Children[i] = n}

\* the G2 elements named by an identifier after position e
G2ElementsAfter(e) ==
    {n \in Elements : nodes[n].def > e /\ lexed[nodes[n].def].type = TokenIdentifier}

\* the next G2 element named by an identifier after position e
NextG2Element(e) ==
    {n \in G2ElementsAfter(e) :
        \A m \in G2ElementsAfter(e) : nodes[n].def <= nodes[m].def}

\* the element being parsed when the line at position s begins: the one
\* named just before the line, or the one whose block the line is written in
CurrentElement(s) ==
    IF lexed[s - 1].type = TokenIdentifier
    THEN NamedAt(s - 1)
    ELSE LET opens == {o \in 2..(s - 1) : /\ lexed[o].type \in OpeningTypes
                                          /\ Depth(o) = Depth(s)}
             o == CHOOSE x \in opens : \A y \in opens : y <= x
         IN  IF opens = {} THEN {}
             ELSE IF o = 2 THEN {result.tree} ELSE NamedAt(o - 1)

\* the children of element e are in the order in which they were written
ChildrenInInputOrder(e) ==
    \A i, j \in 1..Len(nodes[e].Children) :
        i < j => nodes[nodes[e].Children[i]].def < nodes[nodes[e].Children[j]].def

\* C22: in a tree of G2, every text and element written in a G1 line is a
\* node of the tree; the nodes of a forwarding line (##) are children of the
\* next G2 element named by an identifier, before its other children and in
\* the order of the line; the nodes of a line that is not forwarding (#) are
\* children of the element being parsed when the line begins.
C22_ForwardingLineGoesToNextG2Element ==
    (Accepted /\ IsG2Document) =>
        \A s \in 3..Len(lexed) :
            (IsLineStart(s) /\ LineEndOf(s) > 0) =>
                /\ \A p \in WrittenInLine(s) : NodesOfLine(s) \cap NodesAt(p) # {}
                /\ \A n \in NodesOfLine(s) :
                     IF lexed[s].forward
                     THEN /\ ParentOf(n) # {}
                          /\ ParentOf(n) \subseteq NextG2Element(LineEndOf(s))
                          /\ \A e \in ParentOf(n) : ChildrenInInputOrder(e)
                     ELSE /\ ParentOf(n) # {}
                          /\ ParentOf(n) \subseteq CurrentElement(s)

\* ------------------------------------------------------------------ Unmarshal: integers

\* the text is an integer: digits after an optional sign
IsIntegerText(text) ==
    LET body == IF text[1] = "-" THEN Tail(text) ELSE text
    IN  body # << >> /\ \A i \in 1..Len(body) : IsDigit(body[i])

\* the integer that the text stands for
IntegerOf(text) ==
    LET body == IF text[1] = "-" THEN Tail(text) ELSE text
        n == NumberOf([i \in 1..Len(body) |-> DigitValue(body[i])], 0)
    IN  IF text[1] = "-" THEN 0 - n ELSE n

\* the integer v fits the type; a text of up to MaxTextLen characters is
\* below 2^63 in magnitude, so it fits 64 bits if its sign does
Fits(v, type) ==
    IF type.bits < 32
    THEN IF type.signed
         THEN 0 - 2^(type.bits - 1) <= v /\ v <= 2^(type.bits - 1) - 1
         ELSE 0 <= v /\ v <= 2^type.bits - 1
    ELSE type.signed \/ v >= 0

\* Unmarshal has returned from a call with the integer text t for the field
\* V of an integer type
ReturnedInt ==
    /\ unm.stage = "returned"
    /\ DOMAIN unm.fields = {"V"}
    /\ unm.fields["V"].kind = "int"
    /\ "V" \in DOMAIN unm.children
    /\ IsIntegerText(unm.children["V"])

\* C23: Unmarshal returns an error for an integer that does not fit the
\* signedness and the bit width of its field (300 into a signed 8-bit
\* field), and for an integer that fits (-5 into a signed 8-bit field, 3000
\* into an unsigned 64-bit field) it succeeds and the field has that value.
C23_IntegerMustFitField ==
    ReturnedInt =>
        LET v == IntegerOf(unm.children["V"])
            type == unm.fields["V"]
        IN  /\ ~Fits(v, type) => unm.err
            /\ (Fits(v, type) /\ (type.signed \/ unm.children["V"][1] # "-")) =>
                 (~unm.err /\ unm.values["V"] = v)

\* Unmarshal has returned an error for the text 300 and a signed 8-bit field
C23_Witness ==
    /\ ReturnedInt
    /\ unm.children["V"] = <<"3", "0", "0">>
    /\ unm.fields["V"] = IntType(TRUE, 8)
    /\ unm.err

\* ------------------------------------------------------------------ Unmarshal: absent fields

\* the fields of the target that have no child element of their name
AbsentFields == DOMAIN unm.fields \ DOMAIN unm.children

\* the call would succeed if every absent field were left out of the target
PresentFieldsSucceed ==
    ~Unmarshal(unm.children,
               [f \in DOMAIN unm.fields \ AbsentFields |-> unm.fields[f]],
               unm.strict).err

\* C24: when a field of the target has no child element of its name,
\* Unmarshal with strict = TRUE returns an error; with strict = FALSE the
\* call succeeds (if the other fields do) and the absent field has the zero
\* value of its type.
C24_StrictRejectsAbsentField ==
    (unm.stage = "returned" /\ AbsentFields # {}) =>
        IF unm.strict
        THEN unm.err
        ELSE PresentFieldsSucceed =>
                /\ ~unm.err
                /\ \A f \in AbsentFields :
                     unm.values[f] = ZeroValue(unm.fields[f])

\* Unmarshal has returned without error from a call with strict = FALSE for
\* a target with a field that the tree has no child for
C24_Witness ==
    /\ unm.stage = "returned"
    /\ ~unm.strict
    /\ "V" \in AbsentFields
    /\ ~unm.err
    /\ unm.values["V"] = ZeroValue(unm.fields["V"])

\* ------------------------------------------------------------------ G2: attributes

\* the tokens i..i+3 are an attribute of grammar G2, forward or not:
\* @@key="value" or @key="value"
G2AttributeAt(i, forward) ==
    /\ i >= 1
    /\ i + 3 <= Len(lexed)
    /\ lexed[i].type = TokenDefineAttribute
    /\ lexed[i].forward = forward
    /\ lexed[i + 1].type = TokenIdentifier
    /\ lexed[i + 2].type = TokenAssign
    /\ lexed[i + 3].type = TokenCharData

\* the token p is a text that follows a forward attribute, and next() has
\* returned it
TextAfterForwardAttribute(p) ==
    /\ p <= consumed
    /\ lexed[p].type = TokenCharData
    /\ G2AttributeAt(p - 4, TRUE)

\* the text leaves of the tree
TextLeaves == {id \in TreeNodes : nodes[id].IsText}

\* C25: in G2, when forward attributes are followed by a text instead of an
\* identifier, Parse returns the error "attributes cannot be forwarded into
\* this text" at that text token; a text leaf is in the tree only for a text
\* that no forward attribute precedes.
C25_NoForwardAttributesIntoText ==
    (Done /\ IsG2Document) =>
        /\ \A p \in 1..Len(lexed) :
             TextAfterForwardAttribute(p) =>
                /\ result.status = "error"
                /\ result.err.kind = "PosError"
                /\ result.err.msg = "attributes cannot be forwarded into this text"
                /\ result.err.begin = p
        /\ Accepted =>
             \A t \in TextLeaves : ~G2AttributeAt(nodes[t].def - 4, TRUE)

\* Parse has returned the error for a text after a forward attribute
C25_Witness ==
    /\ Done
    /\ IsG2Document
    /\ \E p \in 1..Len(lexed) : TextAfterForwardAttribute(p)
    /\ result.status = "error"
    /\ result.err.msg = "attributes cannot be forwarded into this text"

\* ------------------------------------------------------------------ attributes where a node starts

ForwardAttrMessage == "this should be a forward attribute or removed"

\* the token that the next call of next() returns is in the token buffer and
\* is a non-forward attribute definition
NonForwardAttributeAhead ==
    /\ tokenBuffer # << >>
    /\ tokenBuffer[1].tok.type = TokenDefineAttribute
    /\ ~tokenBuffer[1].tok.forward

\* g1Node or g2Node has begun a node and looks for its forward attributes
AtStartOfNode == At("parseAttributes", "loop") /\ top.wantForward

\* in this step the token ahead of the parser is a non-forward attribute
\* definition at position pos: the first token of the token buffer or, if
\* the buffer is empty, the token that the lexer hands out in this step
NonForwardAttributeMet(pos) ==
    LET met(tok) == /\ tok.type = TokenDefineAttribute
                    /\ ~tok.forward
                    /\ tok.pos = pos
    IN  IF tokenBuffer # << >>
        THEN met(tokenBuffer[1].tok)
        ELSE /\ Len(lexed') = Len(lexed) + 1
             /\ met(lexed'[Len(lexed')])

\* the error for the non-forward attribute has been returned to a caller
ForwardAttrErrorReturned ==
    /\ ret.set
    /\ ret.err.kind = "PosError"
    /\ ret.err.msg = ForwardAttrMessage

\* C26: a non-forward attribute where a node starts, in G1 and in G2, makes
\* Parse return the error "this should be a forward attribute or removed" at
\* that attribute, and the attribute is not consumed: when the parser looks
\* for the forward attributes of a new node and finds a non-forward attribute
\* next, it returns this error with the position of the attribute and leaves
\* the attribute in the token buffer, and every caller up to Parse returns
\* the error as it is.
C26_NonForwardAttributeAtNodeStart ==
    [][/\ \A pos \in 1..Len(lexed') :
            (AtStartOfNode /\ NonForwardAttributeMet(pos)) =>
                /\ ForwardAttrErrorReturned'
                /\ ret'.err.begin = pos
                /\ stack' = Pop(stack)
                /\ NonForwardAttributeAhead'
                /\ tokenBuffer'[1].tok.pos = pos
                /\ consumed' = consumed
                /\ consumed' < pos
       /\ ForwardAttrErrorReturned =>
            /\ NonForwardAttributeAhead'
            /\ consumed' = consumed
            /\ \/ ForwardAttrErrorReturned' /\ ret'.err = ret.err
               \/ result'.status = "error" /\ result'.err = ret.err
      ]_vars

\* Parse has returned the error for a non-forward attribute at the start of
\* a node of a G2 document, and the attribute is still in the token buffer
C26_Witness ==
    /\ IsG2Document
    /\ result.status = "error"
    /\ result.err.msg = ForwardAttrMessage
    /\ NonForwardAttributeAhead
    /\ result.err.begin = tokenBuffer[1].tok.pos
    /\ consumed = result.err.begin - 1

\* ------------------------------------------------------------------ G2: a forward attribute ends a run

\* in this step the token ahead of the parser is a forward attribute
\* definition at position pos
ForwardAttributeMet(pos) ==
    LET met(tok) == /\ tok.type = TokenDefineAttribute
                    /\ tok.forward
                    /\ tok.pos = pos
    IN  IF tokenBuffer # << >>
        THEN met(tokenBuffer[1].tok)
        ELSE /\ Len(lexed') = Len(lexed) + 1
             /\ met(lexed'[Len(lexed')])

\* the position after the run of forward attributes that the attribute at i
\* is part of
RECURSIVE AfterForwardRun(_)
AfterForwardRun(i) ==
    IF G2AttributeAt(i + 4, TRUE) THEN AfterForwardRun(i + 4) ELSE i + 4

\* the position before the run of non-forward attributes that the attribute
\* at i is part of
RECURSIVE BeforeRun(_)
BeforeRun(i) ==
    IF G2AttributeAt(i - 4, FALSE) THEN BeforeRun(i - 4) ELSE i - 1

\* the elements named at position i; the root is named by the preamble
ElementsNamedAt(i) ==
    IF lexed[i].type = TokenG2Preamble
    THEN {result.tree}
    ELSE {n \in Elements : nodes[n].def = i}

\* the element n has the attribute written at i..i+3
HasAttributeAt(n, i) ==
    /\ Has(nodes[n].Attributes, lexed[i + 1].value)
    /\ nodes[n].Attributes[lexed[i + 1].value] = lexed[i + 3].value

\* the non-forward attributes of the element that follows the forward
\* attribute at i hold the key of that attribute too
KeyWrittenAgain(i) ==
    \E j \in 1..Len(lexed) :
        /\ G2AttributeAt(j, FALSE)
        /\ BeforeRun(j) = AfterForwardRun(i)
        /\ lexed[j + 1].value = lexed[i + 1].value

\* C27: a forward attribute met while the non-forward attributes of an
\* element are collected ends the run: parseAttributes returns what it has
\* collected, without an error and without consuming the forward attribute.
\* In the tree of a G2 document every forward attribute is an attribute of
\* the element named after its run, and every non-forward attribute is an
\* attribute of the element named before its run.
C27_ForwardAttributeEndsRun ==
    /\ [][\A pos \in 1..Len(lexed') :
            (At("parseAttributes", "loop") /\ ~top.wantForward
                /\ ForwardAttributeMet(pos)) =>
                /\ ret' = RetAttrs(top.result)
                /\ stack' = Pop(stack)
                /\ tokenBuffer' # << >>
                /\ tokenBuffer'[1].tok.pos = pos
                /\ tokenBuffer'[1].tok.forward
                /\ consumed' = consumed
                /\ consumed' < pos
         ]_vars
    /\ [](Accepted /\ IsG2Document =>
            \A i \in 1..Len(lexed) :
                /\ G2AttributeAt(i, TRUE) =>
                     /\ lexed[AfterForwardRun(i)].type = TokenIdentifier
                     /\ ElementsNamedAt(AfterForwardRun(i)) # {}
                     /\ \A n \in ElementsNamedAt(AfterForwardRun(i)) :
                          \/ HasAttributeAt(n, i)
                          \/ KeyWrittenAgain(i)
                /\ G2AttributeAt(i, FALSE) =>
                     /\ ElementsNamedAt(BeforeRun(i)) # {}
                     /\ \A n \in ElementsNamedAt(BeforeRun(i)) :
                          HasAttributeAt(n, i))

\* an accepted G2 document in which a forward attribute stands right after a
\* non-forward attribute of an element: the element has the non-forward
\* attribute and the element named after the forward one has that
C27_Witness ==
    /\ Accepted
    /\ IsG2Document
    /\ \E i \in 1..Len(lexed) :
         /\ G2AttributeAt(i, FALSE)
         /\ G2AttributeAt(i + 4, TRUE)
         /\ lexed[i + 3].value # lexed[i + 7].value
         /\ \E n \in ElementsNamedAt(BeforeRun(i)) : HasAttributeAt(n, i)
         /\ \E n \in ElementsNamedAt(i + 8) : HasAttributeAt(n, i + 4)

\* ------------------------------------------------------------------ grammar mode

\* g1LineNodes is parsing a line: it has consumed the # and is in its loop
LineBeingParsed ==
    \E i \in 1..Len(stack) :
        stack[i].fn = "g1LineNodes" /\ stack[i].pc \in {"loop", "child"}

\* an error is on its way to Parse, or Parse has failed
Failing ==
    \/ ret.set /\ ret.err # NoErr
    \/ result.status \in {"error", "panic"}

\* this step consumes a G1LineEnd token
G1LineEndConsumed ==
    /\ consumed' > consumed
    /\ lexed'[consumed'].type = TokenG1LineEnd

\* The mode is G1Line exactly while g1LineNodes is parsing a line.
C28_G1LineExactlyInLine == (mode = G1Line) <=> LineBeingParsed

\* C28: the mode is G1 from construction and in every state of a document
\* that does not begin with the preamble; in a document that begins with
\* the preamble it is G2 or G1Line; it is G1Line while g1LineNodes is
\* parsing a line, and outside of that only when the line has failed with
\* an error; a step that consumes the G1LineEnd sets it to G2 again, unless
\* the token is consumed as an unexpected token of a failing line.
C28_ModeProtocol ==
    /\ [](lexed = << >> => mode = G1)
    /\ [](~IsG2Document => mode = G1)
    /\ [](IsG2Document => mode \in {G2, G1Line})
    /\ [](LineBeingParsed => mode = G1Line)
    /\ [](mode = G1Line => (LineBeingParsed \/ Failing))
    /\ [][G1LineEndConsumed => (mode' = G2 \/ Failing')]_vars

\* a G1 line inside G2 was parsed up to its G1LineEnd and the mode is G2
\* again
C28_Witness ==
    /\ Accepted
    /\ mode = G2
    /\ \E i \in 1..consumed : lexed[i].type = TokenG1LineEnd

\* ------------------------------------------------------------------ the token stream of a G1 document

\* Parse has taken the branch of grammar G1
IsG1Document == result.status # "init" /\ mode = G1

\* what next() returns for the token lexed[k]
HandedFor(k) ==
    IF lexed[k].type = "LexError"
    THEN [tok |-> NilTok, err |-> LexErr]
    ELSE [tok |-> lexed[k], err |-> NoErr]

\* the i-th entry of the history of next() is the i-th of: DefineElement,
\* Identifier("root"), BlockStart, the tokens of the lexer, BlockEnd, EOF
InStreamOrder(i) ==
    LET d == delivered[i]
        k == i - 3
    IN  CASE i = 1 -> d.tok.type = TokenDefineElement /\ ~d.tok.forward
                        /\ d.err = NoErr
          [] i = 2 -> d.tok.type = TokenIdentifier /\ d.tok.value = "root"
                        /\ d.err = NoErr
          [] i = 3 -> d.tok.type = TokenBlockStart /\ d.err = NoErr
          [] i > 3 /\ k <= Len(lexed) ->
                /\ d.tok = HandedFor(k).tok
                /\ d.err = HandedFor(k).err
          [] k = Len(lexed) + 1 ->
                /\ lexEOF
                /\ d.tok.type = TokenBlockEnd
                /\ d.err = NoErr
          [] k = Len(lexed) + 2 ->
                /\ lexEOF
                /\ d.tok = NilTok
                /\ d.err = EOF
          [] OTHER -> FALSE

\* peek() returns what the next() after it returns, a second peek() returns
\* the same and leaves the parser as it is, and no peek() reads a token from
\* the lexer that the next() after it would not have read
PeekShowsNext ==
    \A r \in peek(TokenState, mode) :
        /\ r.s.out = delivered
        /\ \A n \in next(r.s, mode) :
             /\ n.tok = r.tok
             /\ n.err = r.err
             /\ n.s.lexed = r.s.lexed
        /\ \A q \in peek(r.s, mode) :
             /\ q.tok = r.tok
             /\ q.err = r.err
             /\ q.s = r.s

\* C29: for a G1 document the tokens that next() returns are DefineElement,
\* Identifier("root"), BlockStart, the tokens of the input in the order of
\* the lexer, one BlockEnd at the end of the input and then EOF, as far as
\* the parser reads; peek() returns the token that the next() after it
\* returns, and a repeated peek() does not advance the lexer.
C29_G1TokenStream ==
    IsG1Document =>
        /\ \A i \in 1..Len(delivered) : InStreamOrder(i)
        /\ PeekShowsNext

\* next() has returned the whole stream of a G1 document with input tokens:
\* the prelude, the tokens of the lexer, the BlockEnd and EOF
C29_Witness ==
    /\ IsG1Document
    /\ Len(lexed) > 0
    /\ Len(delivered) = Len(lexed) + 5
    /\ delivered[Len(lexed) + 4].tok.type = TokenBlockEnd
    /\ delivered[Len(lexed) + 5].err = EOF

\* ------------------------------------------------------------------ positions of synthetic tokens

\* the i-th token that next() returned was made by the parser: the prelude
\* DefineElement, Identifier("root"), BlockStart and the BlockEnd of the tail
\* buffer in G1, the Identifier("root") in G2
IsPrelude(i) == IF IsG2Document THEN i = 1 ELSE i <= 3
IsTail(i) == ~IsG2Document /\ lexEOF /\ i = Len(lexed) + 4

\* Every synthetic token has the position of the lexer when next() returns
\* it.
C30_SyntheticTokensAtLexerPosition ==
    \A i \in 1..Len(delivered) :
        (IsPrelude(i) \/ IsTail(i)) => delivered[i].tok.pos = delivered[i].at

\* C30: the BlockEnd of the tail buffer has the position of the lexer, the
\* end of the input, when next() returns it; the tokens of the prelude keep
\* the zero position they were made with, and no error is reported at them:
\* the position of every error that Parse returns for a document with
\* tokens is a position of the input.
C30_TailTokenAtLexerPosition ==
    /\ \A i \in 1..Len(delivered) :
         /\ IsTail(i) =>
              /\ delivered[i].tok.pos = delivered[i].at
              /\ delivered[i].at = Len(lexed)
         /\ IsPrelude(i) => delivered[i].tok.pos = 0
    /\ (result.status = "error" /\ result.err.kind = "PosError") =>
         /\ result.err.begin >= 1
         /\ result.err.begin <= Len(lexed)

\* Parse has returned an error at the BlockEnd of the tail buffer, with the
\* position of the end of the input
C30_Witness ==
    /\ result.status = "error"
    /\ result.err.kind = "PosError"
    /\ delivered # << >>
    /\ IsTail(Len(delivered))
    /\ delivered[Len(delivered)].tok.type = TokenBlockEnd
    /\ result.err.begin = delivered[Len(delivered)].tok.pos
    /\ result.err.begin = Len(lexed)

\* ------------------------------------------------------------------ G2: closing a block

\* in this step the token ahead of the parser is a closing token at
\* position pos
ClosingTokenMet(pos) ==
    LET met(tok) == tok.type \in ClosingTypes /\ tok.pos = pos
    IN  IF tokenBuffer # << >>
        THEN met(tokenBuffer[1].tok)
        ELSE /\ Len(lexed') = Len(lexed) + 1
             /\ met(lexed'[Len(lexed')])

\* the closing token type that matches an opening token type
ClosingOf(ty) ==
    CASE ty = TokenBlockStart -> TokenBlockEnd
      [] ty = TokenGroupStart -> TokenGroupEnd
      [] ty = TokenGenericStart -> TokenGenericEnd

\* the token at e is a closing token inside a block, and the bracket that
\* opened the block is of another kind
MismatchedClose(e) ==
    /\ lexed[e].type \in ClosingTypes
    /\ Depth(e - 1) > 0
    /\ lexed[e].type # ClosingOf(lexed[MatchOpen(e)].type)

\* C31: a G2 element that meets a closing token where its children would
\* begin returns without consuming the token; a closing token inside a
\* block that does not match the bracket that opened the block makes Parse
\* return an error at that token; in an accepted tree every opening bracket
\* has its matching closing bracket.
C31_BlockClosedByMatchingToken ==
    /\ [][\A pos \in 1..Len(lexed') :
            (At("g2Node", "attributes") /\ ret.set /\ ret.err = NoErr
                /\ ClosingTokenMet(pos)) =>
                /\ ret'.set
                /\ ret'.err = NoErr
                /\ ret'.node = top.node
                /\ stack' = Pop(stack)
                /\ tokenBuffer' # << >>
                /\ tokenBuffer'[1].tok.pos = pos
                /\ consumed' = consumed
         ]_vars
    /\ []((Done /\ IsG2Document) =>
            \A e \in 1..Len(lexed) :
                MismatchedClose(e) => RejectedAt(e))
    /\ []((Accepted /\ IsG2Document) =>
            \A o \in 1..Len(lexed) :
                lexed[o].type \in OpeningTypes =>
                    /\ ClosesOf(o) # {}
                    /\ lexed[MatchClose(o)].type = ClosingOf(lexed[o].type))

\* Parse has returned an error at a closing token that does not match the
\* block it stands in
C31_Witness ==
    /\ Done
    /\ IsG2Document
    /\ \E e \in 1..Len(lexed) : MismatchedClose(e) /\ RejectedAt(e)

\* ------------------------------------------------------------------ G1: forwarding elements

\* the elements declared with ##, in the tree or not
DeclaredForwarding ==
    {id \in 1..Len(nodes) : ~nodes[id].IsText /\ nodes[id].fwd}

\* the places of node id in the tree: a parent and an index of its children
PlacesOf(id) ==
    {pl \in TreeNodes \X (1..Len(nodes)) :
        /\ pl[2] <= Len(nodes[pl[1]].Children)
        /\ nodes[pl[1]].Children[pl[2]] = id}

\* C32: what g1Node returns to its caller is a text leaf or an element that
\* is not forwarding; in every tree that Parse returns each element declared
\* with ## has exactly one place, as a child of an element constructed
\* after it.
C32_ForwardingElementPlacedOnce ==
    /\ [][(stack # << >> /\ top.fn = "g1Node" /\ stack' = Pop(stack) /\ ret'.set
             /\ ret'.err = NoErr) =>
            /\ ret'.node \in 1..Len(nodes')
            /\ nodes'[ret'.node].IsText \/ ~nodes'[ret'.node].fwd
         ]_vars
    /\ [](Accepted =>
            \A id \in DeclaredForwarding :
                /\ Cardinality(PlacesOf(id)) = 1
                /\ \A pl \in PlacesOf(id) :
                     /\ ~nodes[pl[1]].IsText
                     /\ pl[1] > id)

\* an accepted tree with an element declared with ## in it, and one place
\* where it is a child
C32_Witness ==
    /\ Accepted
    /\ \E id \in DeclaredForwarding :
         /\ id \in TreeNodes
         /\ Cardinality(PlacesOf(id)) = 1

\* ------------------------------------------------------------------ the syntax of an attribute

\* parseAttributes is running and has read the '@' or '@@' of an attribute
ReadingAttribute ==
    /\ stack # << >>
    /\ top.fn = "parseAttributes"
    /\ top.pc \in {"key", "delimiter", "value", "close"}

\* the grammar of the current mode is G1
ModeIsG1 == mode \in {G1, G1Line}

\* the type of the token that the syntax of the mode asks for at a place
\* in an attribute: @key{value} in G1, @key="value" in G2
AskedFor(pc) ==
    CASE pc = "key" -> TokenIdentifier
      [] pc = "delimiter" -> IF ModeIsG1 THEN TokenBlockStart ELSE TokenAssign
      [] pc = "value" -> TokenCharData
      [] pc = "close" -> TokenBlockEnd

\* the place after pc in an attribute; after the last one the loop goes on
PlaceAfter(pc) ==
    CASE pc = "key" -> "delimiter"
      [] pc = "delimiter" -> "value"
      [] pc = "value" -> IF ModeIsG1 THEN "close" ELSE "loop"
      [] pc = "close" -> "loop"

\* the token that next() returned last
LastHanded == delivered[Len(delivered)]

\* this step returns an error from parseAttributes, and no attributes
AttributeRefused ==
    /\ stack' = Pop(stack)
    /\ ret'.set
    /\ ret'.err # NoErr
    /\ ret'.attrs = NewAttributeMap

\* this step goes on to the next place of the attribute; the step that
\* reads the value records the attribute, and no other step records one
AttributeGoesOn ==
    /\ Len(stack') = Len(stack)
    /\ top'.fn = "parseAttributes"
    /\ top'.pc = PlaceAfter(top.pc)
    /\ IF top.pc = "value"
       THEN /\ DOMAIN top'.result = DOMAIN top.result \cup {top.attrKey}
            /\ top'.result[top.attrKey] = LastHanded'.tok.value
            /\ \A k \in DOMAIN top.result : top'.result[k] = top.result[k]
       ELSE top'.result = top.result

\* the step of parseAttributes at a place of an attribute, where a token of
\* the type that the syntax of the mode asks for goes on and any other token
\* is refused; failing tells what happens when there is no token at all
\* where the delimiter or the closing bracket is expected
AttributeStep(failing) ==
    ReadingAttribute =>
        /\ Len(delivered') = Len(delivered) + 1
        /\ IF LastHanded'.tok = NilTok /\ top.pc \in {"delimiter", "close"}
           THEN failing
           ELSE IF LastHanded'.tok.type # AskedFor(top.pc)
           THEN AttributeRefused
           ELSE \/ AttributeGoesOn
                \/ /\ top.pc = "key"
                   /\ Has(top.result, LastHanded'.tok.value)
                   /\ AttributeRefused

G1ForwardAttributeAt(i) ==
    /\ i >= 1
    /\ i + 4 <= Len(lexed)
    /\ lexed[i].type = TokenDefineAttribute
    /\ lexed[i].forward
    /\ lexed[i + 1].type = TokenIdentifier
    /\ lexed[i + 2].type = TokenBlockStart
    /\ lexed[i + 3].type = TokenCharData
    /\ lexed[i + 4].type = TokenBlockEnd

\* parseAttributes has read the whole forward attribute written at i
ForwardAttributeConsumed(i) ==
    \/ G1ForwardAttributeAt(i) /\ ~IsG2Document /\ i + 4 <= consumed
    \/ G2AttributeAt(i, TRUE) /\ IsG2Document /\ i + 3 <= consumed

\* an element of the returned tree that is named after position i holds the
\* key of the attribute written at i
KeptInTree(i) ==
    \E n \in Elements :
        /\ nodes[n].def > i
        /\ Has(nodes[n].Attributes, lexed[i + 1].value)

\* C34 (as claimed): no forward attribute is silently lost: when Parse
\* returns a tree, every forward attribute that parseAttributes has read is
\* in the attribute map of an element of that tree, also when a text follows
\* the forward attributes in G1.
C34_NoForwardAttributeLost ==
    Accepted => \A i \in 1..Len(lexed) : ForwardAttributeConsumed(i) => KeptInTree(i)

\* ------------------------------------------------------------------ forwarded nodes and closing brackets

\* the child n of the element e was forwarded into it: it is written before
\* the name of e
ForwardedInto(n, e) ==
    /\ \E k \in 1..Len(nodes[e].Children) : nodes[e].Children[k] = n
    /\ nodes[n].def < nodes[e].def

\* the block in which the node n is written is closed before position i
BlockClosedBetween(n, i) ==
    \E c \in (nodes[n].def + 1)..(i - 1) :
        /\ lexed[c].type \in ClosingTypes
        /\ Depth(c - 1) <= Depth(nodes[n].def - 1)

\* C35 (as claimed): forwarded nodes never cross a closing bracket: in a
\* tree that Parse returns, a node that was forwarded into an element is
\* written in a block that is still open where that element is named.
C35_ForwardedNodesStayInBlock ==
    Accepted =>
        \A e \in Elements : \A n \in TreeNodes :
            ForwardedInto(n, e) => ~BlockClosedBetween(n, nodes[e].def)

\* ------------------------------------------------------------------ the mode a token is read in

\* a G1 line is open after the first k tokens of a G2 document: its '#' is
\* among them and its G1LineEnd is not
RECURSIVE LineOpenAfter(_)
LineOpenAfter(k) ==
    IF k <= 1 THEN FALSE
    ELSE IF lexed[k].type = TokenG1LineEnd THEN FALSE
    ELSE IF lexed[k].type = TokenDefineElement /\ ~LineOpenAfter(k - 1) THEN TRUE
    ELSE LineOpenAfter(k - 1)

\* this step of g1LineNodes assigns the mode
ModeAssignedInLine ==
    /\ stack # << >>
    /\ top.fn = "g1LineNodes"
    /\ mode' # mode

\* this step reads a token of a G2 document from the lexer
TokenReadInG2 ==
    /\ Len(lexed') = Len(lexed) + 1
    /\ IsG2Document

\* C36: no token is read from the lexer under a stale mode: when g1LineNodes
\* assigns the mode (G1Line after the opening '#', G2 after the G1LineEnd)
\* the token buffer is empty, and every token of a G2 document is read in
\* the mode of its place: in G1Line when a line is open before it, the first
\* token of the line included, in G2 otherwise, the first token after the
\* line included.
C36_NoTokenReadUnderStaleMode ==
    [][/\ ModeAssignedInLine => tokenBuffer' = << >>
       /\ TokenReadInG2 =>
            mode = (IF LineOpenAfter(Len(lexed)) THEN G1Line ELSE G2)
      ]_vars

\* a line was parsed, and tokens were read inside it and after it
C36_Witness ==
    /\ Accepted
    /\ IsG2Document
    /\ \E i \in 1..(Len(lexed) - 1) :
         /\ lexed[i].type = TokenG1LineEnd
         /\ i <= consumed
         /\ LineOpenAfter(i - 1)
         /\ lexed[i - 1].type # TokenDefineElement

\* ------------------------------------------------------------------ termination

\* Parse on any input, its steps taken as long as there is one to take
SpecTerminates == Spec /\ WF_vars(Next)

\* this step returns a node or a list of nodes, without an error, from a
\* call of g1Node, g2Node or g1LineNodes that a child loop or a function
\* that had parsed a forwarding element made
NodesReturned ==
    /\ Len(stack) > 1
    /\ top.fn \in {"g1Node", "g2Node", "g1LineNodes"}
    /\ stack' = Pop(stack)
    /\ ret'.set
    /\ ret'.err = NoErr

\* C37: Parse terminates on every finite token stream: a call of g1Node,
\* g2Node or g1LineNodes made by a child loop or after a forwarding element
\* returns an error or has consumed at least one token, and Parse
\* eventually ends (with a tree or an error, or failing on a nil token).
C37_ParseTerminates ==
    /\ [][NodesReturned => consumed' > top.start]_vars
    /\ <>Done

\* Parse has returned a tree after a child loop ran more than once and a
\* node was parsed in place of a forwarding element
C37_Witness ==
    /\ Accepted
    /\ \E e \in Elements : Len(nodes[e].Children) >= 2
    /\ \E n \in TreeNodes : nodes[n].fwd

\* ------------------------------------------------------------------ AppendForwardingNodes

\* C38 (as claimed): AppendForwardingNodes adds every buffered forwarding
\* node to the children of the current parent exactly once and in the order
\* of the buffer, keeps the children the parent already had, and leaves the
\* buffer of forwarding nodes empty.
C38_AppendForwardingNodesAppendsAll ==
    visitor.stage = "appended" =>
        /\ visitor.children = visitor.had \o visitor.buffered
        /\ visitor.forwardingNodes = << >>

====
